---- MODULE Spec2Model ----
(***************************************************************************)
(* Model of the liter schema compiler (src/src/table.rs, src/src/value.rs, *)
(* src/src/column.rs): value trees, the projection of a value tree to flat *)
(* column names, the SQL statement generators, the CREATE TABLE text       *)
(* (TableDef::define with the constraints of src/src/value.rs) and the     *)
(* validation of a schema (src/src/meta/validate.rs); the creation of a    *)
(* schema (src/src/schema.rs); Binder and Fetcher with the Bind and Fetch  *)
(* of scalars, Option<T> and tuples (src/src/types); and the operations of *)
(* Database (src/src/lib.rs) on a storage engine that keeps the rows of    *)
(* one table and reads the generated statements.                           *)
(*                                                                         *)
(* Text is modelled as the sequence of its lexical tokens (whitespace is   *)
(* not represented): every push_str / write! of the source appends the     *)
(* tokens of the pushed string.  A column name is the token sequence       *)
(* s1 "_" s2 "_" ... sk built by StrChain::join; field-name segments are   *)
(* atoms that contain no underscore.  Numbers are pushed in decimal.       *)
(***************************************************************************)
EXTENDS Integers, Sequences, FiniteSets, TLC

VARIABLES table, res, schema, db, binder, fetcher

vars == <<table, res, schema, db, binder, fetcher>>

(***************************************************************************)
(* Bounds of the model                                                     *)
(***************************************************************************)
\* total number of tree nodes (columns, wrappers, composites) of a table
MaxNodes == 4
\* number of values of a table whose CREATE TABLE text is assembled
MaxValues == 2
\* number of tables of a schema, and of tables a table refers to
MaxTables == 3
MaxRefs == 2
\* number of tables a table of an opened schema refers to
MaxOpenRefs == 1
\* number of type constructors of a type that is bound or fetched
MaxTypeSize == 5

(***************************************************************************)
(* Data model                                                              *)
(***************************************************************************)
\* field names, assigned to the fields of a struct in declaration order
FieldNames == <<"a", "b", "c", "d", "e", "f", "g", "h">>

TableNames == {"item"}

Affinity == {"Integer", "Real", "Text", "Blob"}

ColumnDef(affinity, nullable, checks) ==
    [affinity |-> affinity, nullable |-> nullable, checks |-> checks]

\* the column definitions leaves are drawn from (i64)
ColumnDefs == {ColumnDef("Integer", FALSE, <<>>)}

\* InnerValueDef::Column / Value / Values.  A nested value is its inner
\* definition: Names::traverse_value reads only the `inner` of a nested ValueDef.
Column(def) == [kind |-> "Column", def |-> def]
Value(def) == [kind |-> "Value", def |-> def]
Values(items) == [kind |-> "Values", items |-> items]

NoReference == [table_name |-> "", deferrable |-> FALSE,
                on_delete |-> "None", on_update |-> "None"]

ValueDef(unique, inner, reference, checks) ==
    [unique |-> unique, inner |-> inner, reference |-> reference,
     checks |-> checks]

RECURSIVE InnersOfSize(_), ItemsOfSize(_, _)
\* every InnerValueDef tree with exactly n nodes
InnersOfSize(n) ==
    IF n <= 0 THEN {}
    ELSE (IF n = 1 THEN {Column(c) : c \in ColumnDefs} ELSE {})
         \cup {Value(d) : d \in InnersOfSize(n - 1)}
         \cup {Values(items) : items \in ItemsOfSize(n - 1, 1)}
\* every list of named sub-values with n nodes in total, named from FieldNames[idx]
ItemsOfSize(n, idx) ==
    IF n = 0 THEN {<<>>}
    ELSE UNION {
        {<<[name |-> FieldNames[idx], def |-> d]>> \o rest :
            d \in InnersOfSize(k), rest \in ItemsOfSize(n - k, idx + 1)}
        : k \in 1..n}

\* Values: a list of (name, ValueDef) pairs
TopValues(items) ==
    [i \in 1..Len(items) |->
        [name |-> items[i].name,
         def |-> ValueDef(FALSE, items[i].def, NoReference, <<>>)]]

RECURSIVE SelectValues(_, _)
\* the sub-list of the values whose name is a primary key name
SelectValues(values, keep) ==
    IF values = <<>> THEN <<>>
    ELSE (IF keep[1] THEN <<Head(values)>> ELSE <<>>)
         \o SelectValues(Tail(values), Tail(keep))

TableDef(name, values, is_key) ==
    [name |-> name,
     primary_key |-> SelectValues([i \in 1..Len(values) |-> values[i].name], is_key),
     values |-> values,
     key_values |-> SelectValues(values, is_key),
     other_values |-> SelectValues(values, [i \in 1..Len(values) |-> ~is_key[i]]),
     constraints |-> <<>>]

TableDefs ==
    UNION {
        {TableDef(name, TopValues(items), is_key) :
            name \in TableNames, is_key \in [1..Len(items) -> BOOLEAN]}
        : items \in UNION {ItemsOfSize(n, 1) : n \in 0..MaxNodes}}

(***************************************************************************)
(* StrConstrue: the text built so far, or the panic that aborted it        *)
(***************************************************************************)
Ok(sc) == [status |-> "ok", msg |-> "", text |-> sc]
Panic(msg) == [status |-> "panic", msg |-> msg, text |-> <<>>]

StrConstrue_new == Ok(<<>>)

\* StrConstrue::push_str: append the tokens of a string (a panic is final)
push_str(sc, toks) ==
    IF sc.status = "panic" THEN sc ELSE Ok(sc.text \o toks)

Digits == <<"0", "1", "2", "3", "4", "5", "6", "7", "8", "9">>

RECURSIVE Decimal(_)
\* the decimal digits write! pushes for a usize
Decimal(n) ==
    IF n < 10 THEN <<Digits[n + 1]>>
    ELSE Decimal(n \div 10) \o <<Digits[(n % 10) + 1]>>

(***************************************************************************)
(* StrChain: linked list of names, the head is the innermost field         *)
(***************************************************************************)
StrChain_start(name) == <<name>>

StrChain_with(self, name) == <<name>> \o self

RECURSIVE StrChain_join(_, _, _)
\* StrChain_join writing the innermost name first
StrChain_join_leaf_first(self, construe, separator) ==
    IF Tail(self) # <<>>
    THEN StrChain_join(Tail(self),
            push_str(push_str(construe, <<Head(self)>>), separator), separator)
    ELSE push_str(construe, <<Head(self)>>)

StrChain_join(self, construe, separator) ==
    IF Tail(self) # <<>>
    THEN push_str(
            push_str(StrChain_join(Tail(self), construe, separator), separator),
            <<Head(self)>>)
    ELSE push_str(construe, <<Head(self)>>)

(***************************************************************************)
(* Names: the column-name list of a list of values                         *)
(***************************************************************************)
Names_new == [bytes |-> StrConstrue_new, names |-> <<>>]

RECURSIVE traverse_value(_, _, _)
\* traverse_value giving a nested value a path segment of its own (the tuple
\* field "0" of the wrapper)
traverse_value_nested_segment(self, chain, def) ==
    IF def.kind = "Column" THEN
        LET start == Len(self.bytes.text)
            bytes == StrChain_join(chain, self.bytes, <<"_">>)
            end   == Len(bytes.text)
        IN  [bytes |-> bytes, names |-> Append(self.names, <<start, end>>)]
    ELSE IF def.kind = "Value" THEN
        traverse_value(self, StrChain_with(chain, "0"), def.def)
    ELSE IF def.items # <<>> THEN
        LET first == Head(def.items)
            rest  == Tail(def.items)
            self1 == traverse_value(self, StrChain_with(chain, first.name), first.def)
        IN  traverse_value(self1, chain, Values(rest))
    ELSE self

\* traverse_value unpacking the rest of a composite before its first value
traverse_value_rest_first(self, chain, def) ==
    IF def.kind = "Column" THEN
        LET start == Len(self.bytes.text)
            bytes == StrChain_join(chain, self.bytes, <<"_">>)
            end   == Len(bytes.text)
        IN  [bytes |-> bytes, names |-> Append(self.names, <<start, end>>)]
    ELSE IF def.kind = "Value" THEN
        traverse_value(self, chain, def.def)
    ELSE IF def.items # <<>> THEN
        LET first == Head(def.items)
            rest  == Tail(def.items)
            self1 == traverse_value(self, chain, Values(rest))
        IN  traverse_value(self1, StrChain_with(chain, first.name), first.def)
    ELSE self

traverse_value(self, chain, def) ==
    IF def.kind = "Column" THEN
        LET start == Len(self.bytes.text)
            bytes == StrChain_join(chain, self.bytes, <<"_">>)
            end   == Len(bytes.text)
        IN  [bytes |-> bytes, names |-> Append(self.names, <<start, end>>)]
    ELSE IF def.kind = "Value" THEN
        traverse_value(self, chain, def.def)
    ELSE IF def.items # <<>> THEN
        LET first == Head(def.items)
            rest  == Tail(def.items)
            \* this descends
            self1 == traverse_value(self, StrChain_with(chain, first.name), first.def)
        IN  \* this doesn't actually descend (yet), it's just unpacking
            traverse_value(self1, chain, Values(rest))
    ELSE self

collect_columns(self, def, name) ==
    traverse_value(self, StrChain_start(name), def.inner)

RECURSIVE from_values_loop(_, _)
from_values_loop(new, values) ==
    IF values = <<>> THEN new
    ELSE from_values_loop(
            collect_columns(new, Head(values).def, Head(values).name),
            Tail(values))

from_values(values) == from_values_loop(Names_new, values)

\* Names::calculate_lengths: (number of names, length of the buffer)
calculate_lengths(values) ==
    LET new == from_values(values)
    IN  <<Len(new.names), Len(new.bytes.text)>>

\* Names::finish: the buffer and the index pairs as arrays
finish(self) == [bytes |-> self.bytes.text, names |-> self.names]

RECURSIVE slice_array_loop(_, _, _, _)
slice_array_loop(arrays, bytes, array, i) ==
    IF i <= Len(arrays.names) THEN
        LET start == arrays.names[i][1]
            end   == arrays.names[i][2]
            name  == SubSeq(bytes, 1, end - start)
            rest  == SubSeq(bytes, end - start + 1, Len(bytes))
        IN  slice_array_loop(arrays, rest, Append(array, name), i + 1)
    ELSE array

slice_array(arrays) == slice_array_loop(arrays, arrays.bytes, <<>>, 1)

\* the column_names! macro
column_names(values) == slice_array(finish(from_values(values)))

ALL_COLUMNS(t) == column_names(t.values)
KEY_COLUMNS(t) == column_names(t.key_values)
OTHER_COLUMNS(t) == column_names(t.other_values)

(***************************************************************************)
(* InnerValueDef: column count, constraint column names, DDL column lines  *)
(***************************************************************************)
RECURSIVE count_columns(_)
count_columns(self) ==
    IF self.kind = "Column" THEN 1
    ELSE IF self.kind = "Value" THEN count_columns(self.def)
    ELSE IF self.items # <<>> THEN
        count_columns(Head(self.items).def)
            + count_columns(Values(Tail(self.items)))
    ELSE 0

RECURSIVE push_column_names(_, _, _)
push_column_names(self, chain, sc) ==
    IF self.kind = "Column" THEN StrChain_join(chain, sc, <<"_">>)
    ELSE IF self.kind = "Value" THEN push_column_names(self.def, chain, sc)
    ELSE IF Len(self.items) = 1 THEN
        \* this matches only on the last definition
        push_column_names(self.items[1].def,
                          StrChain_with(chain, self.items[1].name), sc)
    ELSE IF self.items # <<>> THEN
        LET first == Head(self.items)
            sc1 == push_column_names(first.def, StrChain_with(chain, first.name), sc)
            sc2 == push_str(sc1, <<",">>)
        IN  push_column_names(Values(Tail(self.items)), chain, sc2)
    ELSE Panic("empty Values([])")

Affinity_as_str(affinity) ==
    CASE affinity = "Integer" -> <<"INTEGER">>
      [] affinity = "Real"    -> <<"REAL">>
      [] affinity = "Text"    -> <<"TEXT">>
      [] affinity = "Blob"    -> <<"BLOB">>

RECURSIVE ColumnDef_push_checks(_, _, _)
\* ColumnDef_push_checks writing the check without the name of the column
ColumnDef_push_checks_unnamed(checks, name, sc) ==
    IF checks = <<>> THEN sc
    ELSE LET sc1 == push_str(sc, <<"CHECK", "(">>)
             sc3 == push_str(sc1, Head(checks))
             sc4 == push_str(sc3, <<")">>)
         IN  ColumnDef_push_checks(Tail(checks), name, sc4)

ColumnDef_push_checks(checks, name, sc) ==
    IF checks = <<>> THEN sc
    ELSE LET sc1 == push_str(sc, <<"CHECK", "(">>)
             sc2 == StrChain_join(name, sc1, <<"_">>)
             sc3 == push_str(sc2, Head(checks))
             sc4 == push_str(sc3, <<")">>)
         IN  ColumnDef_push_checks(Tail(checks), name, sc4)

\* ColumnDef_push_sql writing NOT NULL for every column
ColumnDef_push_sql_always_not_null(self, name, sc) ==
    LET sc1 == StrChain_join(name, sc, <<"_">>)
        sc2 == push_str(sc1, Affinity_as_str(self.affinity))
        sc3 == push_str(sc2, <<"NOT", "NULL">>)
    IN  ColumnDef_push_checks(self.checks, name, sc3)

ColumnDef_push_sql(self, name, sc) ==
    LET sc1 == StrChain_join(name, sc, <<"_">>)
        sc2 == push_str(sc1, Affinity_as_str(self.affinity))
        sc3 == IF ~self.nullable THEN push_str(sc2, <<"NOT", "NULL">>) ELSE sc2
    IN  ColumnDef_push_checks(self.checks, name, sc3)

RECURSIVE push_sql(_, _, _)
\* the column lines of a composite written from the last sub-value to the first
push_sql_rest_first(self, chain, sc) ==
    IF self.kind = "Column" THEN ColumnDef_push_sql(self.def, chain, sc)
    ELSE IF self.kind = "Value" THEN push_sql(self.def, chain, sc)
    ELSE IF Len(self.items) = 1 THEN
        push_sql(self.items[1].def, StrChain_with(chain, self.items[1].name), sc)
    ELSE IF self.items # <<>> THEN
        LET first == Head(self.items)
            sc1 == push_sql(Values(Tail(self.items)), chain, sc)
            sc2 == push_str(sc1, <<",">>)
        IN  push_sql(first.def, StrChain_with(chain, first.name), sc2)
    ELSE Panic("empty Values([])")

push_sql(self, chain, sc) ==
    IF self.kind = "Column" THEN ColumnDef_push_sql(self.def, chain, sc)
    ELSE IF self.kind = "Value" THEN push_sql(self.def, chain, sc)
    ELSE IF Len(self.items) = 1 THEN
        push_sql(self.items[1].def, StrChain_with(chain, self.items[1].name), sc)
    ELSE IF self.items # <<>> THEN
        LET first == Head(self.items)
            sc1 == push_sql(first.def, StrChain_with(chain, first.name), sc)
            sc2 == push_str(sc1, <<",">>)
        IN  push_sql(Values(Tail(self.items)), chain, sc2)
    ELSE Panic("empty Values([])")

(***************************************************************************)
(* Statement generators                                                    *)
(***************************************************************************)
RECURSIVE where_loop(_, _)
\* while let [name, rest @ ..] = columns: push " AND ", name, " = ?"
where_loop(sc, columns) ==
    IF columns = <<>> THEN sc
    ELSE where_loop(
            push_str(push_str(push_str(sc, <<"AND">>), Head(columns)), <<"=", "?">>),
            Tail(columns))

\* get_by_key looping over all the key columns after writing the first one
get_by_key_repeats_first(name, key_columns) ==
    LET sc1 == push_str(push_str(push_str(StrConstrue_new,
                    <<"SELECT", "*", "FROM">>), <<name>>), <<"WHERE", "(">>)
    IN  IF key_columns = <<>> THEN Panic("no key columns")
        ELSE LET sc2 == push_str(push_str(sc1, Head(key_columns)), <<"=", "?">>)
                 sc3 == where_loop(sc2, key_columns)
             IN  push_str(sc3, <<")">>)

get_by_key(name, key_columns) ==
    LET sc1 == push_str(push_str(push_str(StrConstrue_new,
                    <<"SELECT", "*", "FROM">>), <<name>>), <<"WHERE", "(">>)
    IN  IF key_columns = <<>> THEN Panic("no key columns")
        ELSE LET sc2 == push_str(push_str(sc1, Head(key_columns)), <<"=", "?">>)
                 sc3 == where_loop(sc2, Tail(key_columns))
             IN  push_str(sc3, <<")">>)

delete(name, key_columns) ==
    LET sc1 == push_str(push_str(push_str(StrConstrue_new,
                    <<"DELETE", "FROM">>), <<name>>), <<"WHERE", "(">>)
    IN  IF key_columns = <<>> THEN Panic("no key columns")
        ELSE LET sc2 == push_str(push_str(sc1, Head(key_columns)), <<"=", "?">>)
                 sc3 == where_loop(sc2, Tail(key_columns))
             IN  push_str(sc3, <<")">>)

RECURSIVE placeholder_loop(_, _, _)
\* while i < column_count: push ", ?"
placeholder_loop(sc, i, column_count) ==
    IF i < column_count
    THEN placeholder_loop(push_str(sc, <<",", "?">>), i + 1, column_count)
    ELSE sc

\* insert counting from 0 although the first ? is already written
insert_from_zero(name, column_count) ==
    IF ~(column_count >= 1) THEN Panic("table must have at least one column")
    ELSE LET sc1 == push_str(push_str(push_str(StrConstrue_new,
                        <<"INSERT", "INTO", "\"">>), <<name>>),
                        <<"\"", "VALUES", "(", "?">>)
             sc2 == placeholder_loop(sc1, 0, column_count)
         IN  push_str(sc2, <<")">>)

\* insert without the assertion on the column count
insert_unchecked(name, column_count) ==
    LET sc1 == push_str(push_str(push_str(StrConstrue_new,
                    <<"INSERT", "INTO", "\"">>), <<name>>),
                    <<"\"", "VALUES", "(", "?">>)
        sc2 == placeholder_loop(sc1, 1, column_count)
    IN  push_str(sc2, <<")">>)

insert(name, column_count) ==
    IF ~(column_count >= 1) THEN Panic("table must have at least one column")
    ELSE LET sc1 == push_str(push_str(push_str(StrConstrue_new,
                        <<"INSERT", "INTO", "\"">>), <<name>>),
                        <<"\"", "VALUES", "(", "?">>)
             \* start from 1 with the first ? already written
             sc2 == placeholder_loop(sc1, 1, column_count)
         IN  push_str(sc2, <<")">>)

RECURSIVE conflict_loop(_, _)
\* while let [name, rest @ ..] = columns: push ", ", name
conflict_loop(sc, columns) ==
    IF columns = <<>> THEN sc
    ELSE conflict_loop(push_str(push_str(sc, <<",">>), Head(columns)), Tail(columns))

RECURSIVE excluded_loop(_, _)
\* while let [name, rest @ ..] = columns: push ", ", name, " = excluded.", name
excluded_loop(sc, columns) ==
    IF columns = <<>> THEN sc
    ELSE excluded_loop(
            push_str(push_str(push_str(push_str(sc, <<",">>), Head(columns)),
                <<"=", "excluded", ".">>), Head(columns)),
            Tail(columns))

\* upsert assigning only the first non-key column
upsert_first_other_only(name, key_columns, other_columns) ==
    LET sc1 == push_str(push_str(push_str(StrConstrue_new,
                    <<"INSERT", "INTO", "\"">>), <<name>>),
                    <<"\"", "VALUES", "(", "?">>)
        sc2 == placeholder_loop(sc1, 1, Len(key_columns) + Len(other_columns))
        sc3 == push_str(sc2, <<")", "ON", "CONFLICT", "(">>)
    IN  IF key_columns = <<>> THEN Panic("no key columns")
        ELSE LET sc4 == push_str(sc3, Head(key_columns))
                 sc5 == conflict_loop(sc4, Tail(key_columns))
                 sc6 == push_str(sc5, <<")">>)
             IN  IF other_columns = <<>>
                 THEN \* key-only table
                      push_str(sc6, <<"DO", "NOTHING">>)
                 ELSE LET first == Head(other_columns)
                          sc7 == push_str(push_str(push_str(push_str(sc6,
                                    <<"DO", "UPDATE", "SET">>), first),
                                    <<"=", "excluded", ".">>), first)
                      IN  sc7

\* upsert writing one placeholder per key column only
upsert_key_placeholders(name, key_columns, other_columns) ==
    LET sc1 == push_str(push_str(push_str(StrConstrue_new,
                    <<"INSERT", "INTO", "\"">>), <<name>>),
                    <<"\"", "VALUES", "(", "?">>)
        sc2 == placeholder_loop(sc1, 1, Len(key_columns))
        sc3 == push_str(sc2, <<")", "ON", "CONFLICT", "(">>)
    IN  IF key_columns = <<>> THEN Panic("no key columns")
        ELSE LET sc4 == push_str(sc3, Head(key_columns))
                 sc5 == conflict_loop(sc4, Tail(key_columns))
                 sc6 == push_str(sc5, <<")">>)
             IN  IF other_columns = <<>>
                 THEN \* key-only table
                      push_str(sc6, <<"DO", "NOTHING">>)
                 ELSE LET first == Head(other_columns)
                          sc7 == push_str(push_str(push_str(push_str(sc6,
                                    <<"DO", "UPDATE", "SET">>), first),
                                    <<"=", "excluded", ".">>), first)
                      IN  excluded_loop(sc7, Tail(other_columns))

\* upsert without the ON CONFLICT clause
upsert_as_insert(name, key_columns, other_columns) ==
    insert(name, Len(key_columns) + Len(other_columns))

upsert(name, key_columns, other_columns) ==
    LET sc1 == push_str(push_str(push_str(StrConstrue_new,
                    <<"INSERT", "INTO", "\"">>), <<name>>),
                    <<"\"", "VALUES", "(", "?">>)
        sc2 == placeholder_loop(sc1, 1, Len(key_columns) + Len(other_columns))
        sc3 == push_str(sc2, <<")", "ON", "CONFLICT", "(">>)
    IN  IF key_columns = <<>> THEN Panic("no key columns")
        ELSE LET sc4 == push_str(sc3, Head(key_columns))
                 sc5 == conflict_loop(sc4, Tail(key_columns))
                 sc6 == push_str(sc5, <<")">>)
             IN  IF other_columns = <<>>
                 THEN \* key-only table
                      push_str(sc6, <<"DO", "NOTHING">>)
                 ELSE LET first == Head(other_columns)
                          sc7 == push_str(push_str(push_str(push_str(sc6,
                                    <<"DO", "UPDATE", "SET">>), first),
                                    <<"=", "excluded", ".">>), first)
                      IN  excluded_loop(sc7, Tail(other_columns))

RECURSIVE update_columns(_, _, _, _, _, _)
\* update_columns numbering the parameters from 0 instead of 1
update_columns_0based(sc, is_first, param_idx, last_col_idx, all_columns, separator) ==
    IF param_idx < last_col_idx THEN
        LET sc1 == IF ~is_first THEN push_str(sc, separator) ELSE sc
            sc2 == IF param_idx < Len(all_columns)
                   THEN push_str(push_str(push_str(sc1,
                            all_columns[param_idx + 1]), <<"=", "?">>),
                            Decimal(param_idx))
                   ELSE Panic("index out of bounds")
        IN  update_columns(sc2, FALSE, param_idx + 1, last_col_idx,
                           all_columns, separator)
    ELSE [sc |-> sc, is_first |-> is_first, param_idx |-> param_idx]

\* while param_idx < last_col_idx:
\*     push [separator], all_columns[param_idx], " = ?", param_idx + 1
update_columns(sc, is_first, param_idx, last_col_idx, all_columns, separator) ==
    IF param_idx < last_col_idx THEN
        LET sc1 == IF ~is_first THEN push_str(sc, separator) ELSE sc
            sc2 == IF param_idx < Len(all_columns)
                   THEN push_str(push_str(push_str(sc1,
                            all_columns[param_idx + 1]), <<"=", "?">>),
                            Decimal(param_idx + 1)) \* params 1-based
                   ELSE Panic("index out of bounds")
        IN  update_columns(sc2, FALSE, param_idx + 1, last_col_idx,
                           all_columns, separator)
    ELSE [sc |-> sc, is_first |-> is_first, param_idx |-> param_idx]

RECURSIVE update_set_loop(_, _, _, _, _, _)
\* first pass: SET col_a = ?1, col_c = ?3, col_d = ?4
update_set_loop(sc, is_first, param_idx, val_idx, val_is_key_and_count, all_columns) ==
    IF val_idx < Len(val_is_key_and_count) THEN
        LET is_key == val_is_key_and_count[val_idx + 1].is_key
            count  == val_is_key_and_count[val_idx + 1].count
        IN  IF is_key
            THEN update_set_loop(sc, is_first, param_idx + count, val_idx + 1,
                                 val_is_key_and_count, all_columns)
            ELSE LET st == update_columns(sc, is_first, param_idx,
                                          param_idx + count, all_columns, <<",">>)
                 IN  update_set_loop(st.sc, st.is_first, st.param_idx, val_idx + 1,
                                     val_is_key_and_count, all_columns)
    ELSE sc

RECURSIVE update_where_loop(_, _, _, _, _, _)
\* update_where_loop writing the non-key columns, like the first pass
update_where_loop_non_key(sc, is_first, param_idx, val_idx, val_is_key_and_count, all_columns) ==
    IF val_idx < Len(val_is_key_and_count) THEN
        LET is_key == val_is_key_and_count[val_idx + 1].is_key
            count  == val_is_key_and_count[val_idx + 1].count
        IN  IF is_key
            THEN update_where_loop(sc, is_first, param_idx + count, val_idx + 1,
                                   val_is_key_and_count, all_columns)
            ELSE LET st == update_columns(sc, is_first, param_idx,
                                          param_idx + count, all_columns, <<"AND">>)
                 IN  update_where_loop(st.sc, st.is_first, st.param_idx, val_idx + 1,
                                       val_is_key_and_count, all_columns)
    ELSE sc

\* second pass: WHERE col_b = ?2 AND col_e = ?5 AND col_f = ?6
update_where_loop(sc, is_first, param_idx, val_idx, val_is_key_and_count, all_columns) ==
    IF val_idx < Len(val_is_key_and_count) THEN
        LET is_key == val_is_key_and_count[val_idx + 1].is_key
            count  == val_is_key_and_count[val_idx + 1].count
        IN  IF ~is_key
            THEN update_where_loop(sc, is_first, param_idx + count, val_idx + 1,
                                   val_is_key_and_count, all_columns)
            ELSE LET st == update_columns(sc, is_first, param_idx,
                                          param_idx + count, all_columns, <<"AND">>)
                 IN  update_where_loop(st.sc, st.is_first, st.param_idx, val_idx + 1,
                                       val_is_key_and_count, all_columns)
    ELSE sc

update(name, val_is_key_and_count, all_columns) ==
    IF all_columns = <<>> THEN Panic("table must have at least one column")
    ELSE LET sc1 == push_str(push_str(push_str(StrConstrue_new,
                        <<"UPDATE", "\"">>), <<name>>), <<"\"", "SET">>)
             sc2 == update_set_loop(sc1, TRUE, 0, 0, val_is_key_and_count, all_columns)
             sc3 == push_str(sc2, <<"WHERE">>)
         IN  update_where_loop(sc3, TRUE, 0, 0, val_is_key_and_count, all_columns)

(***************************************************************************)
(* The statements of a table, as the derive macro instantiates them        *)
(***************************************************************************)
\* Value::COLUMN_COUNT
COLUMN_COUNT(def) == count_columns(def.inner)

Range(seq) == {seq[i] : i \in DOMAIN seq}

\* one (is_key, column count) pair per value of the table, in declaration order
ValIsKeyAndCount(t) ==
    [i \in 1..Len(t.values) |->
        [is_key |-> t.values[i].name \in Range(t.primary_key),
         count  |-> COLUMN_COUNT(t.values[i].def)]]

GET_BY_KEY(t) == get_by_key(t.name, KEY_COLUMNS(t))
DELETE(t) == delete(t.name, KEY_COLUMNS(t))
INSERT(t) == insert(t.name, Len(ALL_COLUMNS(t)))
UPSERT(t) == upsert(t.name, KEY_COLUMNS(t), OTHER_COLUMNS(t))
UPDATE(t) == update(t.name, ValIsKeyAndCount(t), ALL_COLUMNS(t))

\* HasKey::KEY_VALUE: the inner definition of the key value, or the composite
\* of the inner definitions of the key values
KEY_VALUE(t) ==
    IF Len(t.key_values) = 1 THEN Value(t.key_values[1].def.inner)
    ELSE Values([i \in 1..Len(t.key_values) |->
                    [name |-> t.key_values[i].name,
                     def |-> t.key_values[i].def.inner]])

(***************************************************************************)
(* ForeignKey and the constraints of a value                               *)
(***************************************************************************)
FkConflictAction == {"Cascade", "Restrict", "SetNull"}

ForeignKey(table_name, deferrable, on_delete, on_update) ==
    [table_name |-> table_name, deferrable |-> deferrable,
     on_delete |-> on_delete, on_update |-> on_update]

\* ForeignKey::define_for::<T>()
ForeignKey_define_for(T) == ForeignKey(T.name, FALSE, "Restrict", "Restrict")

FkConflictAction_as_sql(self) ==
    CASE self = "Cascade"  -> <<"CASCADE">>
      [] self = "Restrict" -> <<"RESTRICT">>
      [] self = "SetNull"  -> <<"SET", "NULL">>

\* ForeignKey_push_sql writing the two actions in each other's place
ForeignKey_push_sql_swapped(self, sc) ==
    LET sc1 == push_str(sc, <<"REFERENCES">>)
        sc2 == push_str(sc1, <<self.table_name>>)
        sc3 == push_str(sc2, <<"ON", "UPDATE">>)
        sc4 == push_str(sc3, FkConflictAction_as_sql(self.on_delete))
        sc5 == push_str(sc4, <<"ON", "DELETE">>)
        sc6 == push_str(sc5, FkConflictAction_as_sql(self.on_update))
    IN  IF self.deferrable
        THEN push_str(sc6, <<"DEFERRABLE", "INITIALLY", "DEFERRED">>)
        ELSE sc6

ForeignKey_push_sql(self, sc) ==
    LET sc1 == push_str(sc, <<"REFERENCES">>)
        sc2 == push_str(sc1, <<self.table_name>>)
        sc3 == push_str(sc2, <<"ON", "UPDATE">>)
        sc4 == push_str(sc3, FkConflictAction_as_sql(self.on_update))
        sc5 == push_str(sc4, <<"ON", "DELETE">>)
        sc6 == push_str(sc5, FkConflictAction_as_sql(self.on_delete))
    IN  IF self.deferrable
        THEN push_str(sc6, <<"DEFERRABLE", "INITIALLY", "DEFERRED">>)
        ELSE sc6

\* ValueDef::push_constraint_sql (the checks of a value are not written)
push_constraint_sql(self, name, sc) ==
    LET sc1 == IF self.unique
               THEN LET u1 == push_str(sc, <<",", "UNIQUE", "(">>)
                        u2 == push_column_names(self.inner, StrChain_start(name), u1)
                    IN  push_str(u2, <<")">>)
               ELSE sc
    IN  IF self.reference # NoReference
        THEN LET f1 == push_str(sc1, <<",", "FOREIGN", "KEY", "(">>)
                 f2 == push_column_names(self.inner, StrChain_start(name), f1)
                 f3 == push_str(f2, <<")">>)
             IN  ForeignKey_push_sql(self.reference, f3)
        ELSE sc1

\* <Ref<T> as Value>::DEFINITION
Ref_DEFINITION(T) ==
    ValueDef(FALSE, KEY_VALUE(T),
             ForeignKey(T.name, TRUE, "Restrict", "Restrict"), <<>>)

(***************************************************************************)
(* Constraint and TableDef::define: the CREATE TABLE text.  A panic ends    *)
(* the evaluation: every loop returns at once when the text has panicked.  *)
(***************************************************************************)
SqlCheck(sql) == [kind |-> "SqlCheck", sql |-> sql]
Unique(values) == [kind |-> "Unique", values |-> values]

RECURSIVE unique_loop(_, _)
unique_loop(sc, values) ==
    IF sc.status = "panic" \/ values = <<>> THEN sc
    ELSE LET rest == Tail(values)
             sc1  == push_column_names(Head(values).def.inner,
                                       StrChain_start(Head(values).name), sc)
             sc2  == IF rest # <<>> THEN push_str(sc1, <<",">>) ELSE sc1
         IN  unique_loop(sc2, rest)

Constraint_push_sql(self, sc) ==
    IF self.kind = "SqlCheck"
    THEN push_str(push_str(push_str(sc, <<"CHECK", "(">>), self.sql), <<")">>)
    ELSE push_str(unique_loop(push_str(sc, <<"UNIQUE", "(">>), self.values), <<")">>)

RECURSIVE define_columns_loop(_, _)
\* the column lines of the values after the first
define_columns_loop(sc, values) ==
    IF sc.status = "panic" \/ values = <<>> THEN sc
    ELSE LET sc1 == push_str(sc, <<",">>)
             sc2 == push_sql(Head(values).def.inner,
                             StrChain_start(Head(values).name), sc1)
         IN  define_columns_loop(sc2, Tail(values))

RECURSIVE define_key_loop(_, _)
define_key_loop(sc, key_values) ==
    IF sc.status = "panic" \/ key_values = <<>> THEN sc
    ELSE LET sc1 == push_str(sc, <<",">>)
             sc2 == push_column_names(Head(key_values).def.inner,
                                      StrChain_start(Head(key_values).name), sc1)
         IN  define_key_loop(sc2, Tail(key_values))

RECURSIVE define_key_names_loop(_, _)
define_key_names_loop(sc, key_values) ==
    IF sc.status = "panic" \/ key_values = <<>> THEN sc
    ELSE define_key_names_loop(
            push_str(push_str(sc, <<",">>), <<Head(key_values).name>>),
            Tail(key_values))

\* define_primary_key listing the names of the key fields (TableDef::primary_key)
\* instead of their projected columns
define_primary_key_field_names(sc, key_values) ==
    IF sc.status = "panic" \/ key_values = <<>> THEN sc
    ELSE LET sc1 == push_str(sc, <<",", "PRIMARY", "KEY", "(">>)
             sc2 == push_str(sc1, <<Head(key_values).name>>)
             sc3 == define_key_names_loop(sc2, Tail(key_values))
         IN  push_str(sc3, <<")">>)

define_primary_key(sc, key_values) ==
    IF sc.status = "panic" \/ key_values = <<>> THEN sc
    ELSE LET sc1 == push_str(sc, <<",", "PRIMARY", "KEY", "(">>)
             sc2 == push_column_names(Head(key_values).def.inner,
                                      StrChain_start(Head(key_values).name), sc1)
             sc3 == define_key_loop(sc2, Tail(key_values))
         IN  push_str(sc3, <<")">>)

RECURSIVE define_value_constraints_loop(_, _)
define_value_constraints_loop(sc, values) ==
    IF sc.status = "panic" \/ values = <<>> THEN sc
    ELSE define_value_constraints_loop(
            push_constraint_sql(Head(values).def, Head(values).name, sc),
            Tail(values))

RECURSIVE define_constraints_loop(_, _)
define_constraints_loop(sc, constraints) ==
    IF sc.status = "panic" \/ constraints = <<>> THEN sc
    ELSE define_constraints_loop(
            Constraint_push_sql(Head(constraints), push_str(sc, <<",">>)),
            Tail(constraints))

\* TableDef::define adding the table-level constraints before the constraints
\* of the values
define_constraints_before_values(self) ==
    LET sc1 == push_str(push_str(push_str(StrConstrue_new,
                    <<"CREATE", "TABLE">>), <<self.name>>), <<"(">>)
    IN  IF self.values = <<>> THEN Panic("empty table")
        ELSE LET first == Head(self.values)
                 other_values == Tail(self.values)
                 sc2 == push_sql(first.def.inner, StrChain_start(first.name), sc1)
                 sc3 == define_columns_loop(sc2, other_values)
                 sc4 == define_primary_key(sc3, self.key_values)
                 sc5 == define_constraints_loop(sc4, self.constraints)
                 sc6 == push_constraint_sql(first.def, first.name, sc5)
                 sc7 == define_value_constraints_loop(sc6, other_values)
             IN  push_str(sc7, <<")", "STRICT", ";">>)

\* TableDef::define
define(self) ==
    LET sc1 == push_str(push_str(push_str(StrConstrue_new,
                    <<"CREATE", "TABLE">>), <<self.name>>), <<"(">>)
    IN  IF self.values = <<>> THEN Panic("empty table")
        ELSE LET first == Head(self.values)
                 other_values == Tail(self.values)
                 \* define columns
                 sc2 == push_sql(first.def.inner, StrChain_start(first.name), sc1)
                 sc3 == define_columns_loop(sc2, other_values)
                 \* define primary key constraint
                 sc4 == define_primary_key(sc3, self.key_values)
                 \* define value constraints at table level
                 sc5 == push_constraint_sql(first.def, first.name, sc4)
                 sc6 == define_value_constraints_loop(sc5, other_values)
                 \* add table-level checks
                 sc7 == define_constraints_loop(sc6, self.constraints)
             IN  push_str(sc7, <<")", "STRICT", ";">>)

(***************************************************************************)
(* Schema validation (meta/validate.rs).  A schema is the tuple of its     *)
(* tables; Table::References is (), a table, or a nested tuple (T, L).     *)
(***************************************************************************)
SchemaTableNames == {"A", "B", "C"}

NoSchema == [tables |-> <<>>, references |-> <<>>]

UnitType == [kind |-> "Unit"]
TableType(name) == [kind |-> "Table", name |-> name]
TupleType(T, L) == [kind |-> "Tuple", head |-> T, tail |-> L]

RECURSIVE ReferencesType(_)
\* the References type of a table whose Ref values refer to the tables listed
ReferencesType(refs) ==
    IF refs = <<>> THEN UnitType
    ELSE IF Tail(refs) = <<>> THEN TableType(Head(refs))
    ELSE TupleType(TableType(Head(refs)), ReferencesType(Tail(refs)))

\* Table::References of a table of a schema
References(S, T) == ReferencesType(S.references[T])

\* T: PartOf<S>, implemented for the tables of the tuple struct
PartOf(S, T) == T \in Range(S.tables)

RECURSIVE ValidFor(_, _)
\* ValidFor looking only at the rest of a tuple, never at its first table
ValidFor_tail_only(S, R) ==
    IF R.kind = "Unit" THEN TRUE
    ELSE IF R.kind = "Table" THEN PartOf(S, R.name)
    ELSE R.head.kind = "Table" /\ ValidFor(S, R.tail)

\* ValidFor looking only at the first table of a tuple
ValidFor_head_only(S, R) ==
    IF R.kind = "Unit" THEN TRUE
    ELSE IF R.kind = "Table" THEN PartOf(S, R.name)
    ELSE R.head.kind = "Table" /\ ValidFor(S, R.head)

ValidFor(S, R) ==
    IF R.kind = "Unit" THEN TRUE
    ELSE IF R.kind = "Table" THEN PartOf(S, R.name)
    ELSE /\ R.head.kind = "Table"
         /\ ValidFor(S, R.head)
         /\ ValidFor(S, R.tail)

RefsArePartOf(S, T) == ValidFor(S, References(S, T))

\* #[database]: every table of the tuple struct must be IsValidFor the schema
database(S) ==
    IF \A i \in DOMAIN S.tables : RefsArePartOf(S, S.tables[i])
    THEN StrConstrue_new
    ELSE Panic("the trait bound RefsArePartOf is not satisfied")

\* the lists of tables a table can refer to
RefLists == UNION {[1..n -> SchemaTableNames] : n \in 0..MaxRefs}

(***************************************************************************)
(* Schema::CREATE (schema.rs) and the tables of a schema                   *)
(***************************************************************************)
RECURSIVE Schema_define_loop(_, _)
\* the loop pushing the tables from the last to the first
Schema_define_loop_reversed(sc, tables) ==
    IF sc.status = "panic" \/ tables = <<>> THEN sc
    ELSE push_str(Schema_define_loop(sc, Tail(tables)), Head(tables))

Schema_define_loop(sc, tables) ==
    IF sc.status = "panic" \/ tables = <<>> THEN sc
    ELSE Schema_define_loop(push_str(sc, Head(tables)), Tail(tables))

\* schema::define over the CREATE TABLE texts of the tables
Schema_define(tables) ==
    LET sc == push_str(StrConstrue_new, <<"BEGIN", "TRANSACTION", ";">>)
    IN  push_str(Schema_define_loop(sc, tables), <<"END", "TRANSACTION", ";">>)

\* the key value of every table of a schema: id, an integer column
IdValue ==
    [name |-> "id",
     def |-> ValueDef(FALSE, Column(ColumnDef("Integer", FALSE, <<>>)),
                      NoReference, <<>>)]

\* a table of a schema as a referenced table: its name and its key
Referent(name) == TableDef(name, <<IdValue>>, <<TRUE>>)

\* Table::DEFINITION of the table T of a schema: the key id and one Ref value
\* for each table in its list of references
SchemaTableDef(S, T) ==
    LET refs == S.references[T]
    IN  TableDef(T,
                 <<IdValue>> \o [i \in 1..Len(refs) |->
                                    [name |-> FieldNames[i],
                                     def |-> Ref_DEFINITION(Referent(refs[i]))]],
                 <<TRUE>> \o [i \in 1..Len(refs) |-> FALSE])

\* Table::CREATE_TABLE
CREATE_TABLE(t) == define(t).text

\* Schema::CREATE
Schema_CREATE(S) ==
    Schema_define([i \in DOMAIN S.tables |->
                    CREATE_TABLE(SchemaTableDef(S, S.tables[i]))])

(***************************************************************************)
(* Database (lib.rs): the connection to the storage engine                 *)
(***************************************************************************)
\* no connection: nothing was called on Database, nothing is stored (columns
\* and primary_key are what the engine keeps of the table it created, rows
\* are its rows, last_insert_rowid is what the connection reports)
NoDb == [calls |-> <<>>, connection |-> "none", foreign_keys |-> FALSE,
         executed |-> <<>>, result |-> "none",
         columns |-> <<>>, primary_key |-> <<>>,
         rows |-> {}, last_insert_rowid |-> "0"]

\* Database::from_connection: the pragma, or its error
from_connection(connection, pragma_ok) ==
    IF pragma_ok THEN [connection EXCEPT !.foreign_keys = TRUE, !.result = "Ok"]
    ELSE [connection EXCEPT !.connection = "none", !.result = "Err"]

\* Connection::open / open_in_memory: the connection, or its error
Connection_open(call, open_ok) ==
    IF open_ok THEN [NoDb EXCEPT !.calls = <<call>>, !.connection = "open", !.result = "Ok"]
    ELSE [NoDb EXCEPT !.calls = <<call>>, !.result = "Err"]

\* Result::and_then
and_then_from_connection(connection, pragma_ok) ==
    IF connection.result = "Ok" THEN from_connection(connection, pragma_ok)
    ELSE connection

\* Database::open
Database_open(open_ok, pragma_ok) ==
    and_then_from_connection(Connection_open("open", open_ok), pragma_ok)

\* Database::create_in_memory of the schema S
Database_create_in_memory(S, open_ok, pragma_ok, batch_ok) ==
    LET new == and_then_from_connection(
                   Connection_open("create_in_memory", open_ok), pragma_ok)
    IN  IF new.result = "Err" THEN new
        ELSE IF batch_ok THEN [new EXCEPT !.executed = Schema_CREATE(S).text]
        ELSE [new EXCEPT !.connection = "none", !.foreign_keys = FALSE,
                         !.result = "Err"]

(***************************************************************************)
(* Bind and Binder (types/bind.rs).  The types that are bound and fetched  *)
(* are scalars, Option<T> and tuples; a value carries what its type fixes. *)
(***************************************************************************)
ScalarT == [kind |-> "Scalar"]
OptionT(T) == [kind |-> "Option", inner |-> T]
TupleT(elems) == [kind |-> "Tuple", elems |-> elems]

RECURSIVE TypesOfSize(_), TypeListsOfSize(_)
\* every type written with exactly n type constructors
TypesOfSize(n) ==
    IF n <= 0 THEN {}
    ELSE (IF n = 1 THEN {ScalarT} ELSE {})
         \cup {OptionT(T) : T \in TypesOfSize(n - 1)}
         \cup {TupleT(l) : l \in {e \in TypeListsOfSize(n - 1) : Len(e) >= 2}}
TypeListsOfSize(n) ==
    IF n = 0 THEN {<<>>}
    ELSE UNION {
        {<<T>> \o rest : T \in TypesOfSize(k), rest \in TypeListsOfSize(n - k)}
        : k \in 1..n}

Types == UNION {TypesOfSize(n) : n \in 1..MaxTypeSize}

\* what a column of a row or a parameter of a statement holds
Null == "NULL"
Unbound == "unbound"
ScalarValues == {"x", "y"}
Cells == ScalarValues \cup {Null}

ScalarV(x) == [kind |-> "Scalar", v |-> x]
NoneV == [kind |-> "None"]
SomeV(v) == [kind |-> "Some", value |-> v]
TupleV(items) == [kind |-> "Tuple", items |-> items]

RECURSIVE ValuesOf(_), ValueListsOf(_)
\* the values of a type
ValuesOf(T) ==
    IF T.kind = "Scalar" THEN {ScalarV(x) : x \in ScalarValues}
    ELSE IF T.kind = "Option" THEN {NoneV} \cup {SomeV(v) : v \in ValuesOf(T.inner)}
    ELSE {TupleV(items) : items \in ValueListsOf(T.elems)}
ValueListsOf(elems) ==
    IF elems = <<>> THEN {<<>>}
    ELSE {<<v>> \o rest : v \in ValuesOf(Head(elems)), rest \in ValueListsOf(Tail(elems))}

RECURSIVE Bind_COLUMNS(_), Bind_COLUMNS_sum(_)
\* Bind::COLUMNS
Bind_COLUMNS(T) ==
    IF T.kind = "Scalar" THEN 1
    ELSE IF T.kind = "Option" THEN Bind_COLUMNS(T.inner)
    ELSE Bind_COLUMNS_sum(T.elems)
Bind_COLUMNS_sum(elems) ==
    IF elems = <<>> THEN 0
    ELSE Bind_COLUMNS(Head(elems)) + Bind_COLUMNS_sum(Tail(elems))

\* a statement with count parameters, none of them bound
Statement(count) == [i \in 1..count |-> Unbound]

\* Binder::make
Binder_make(stmt) == [index |-> 0, stmt |-> stmt, result |-> "Ok"]

NoBinder == [Binder_make(<<>>) EXCEPT !.result = "none"]

\* Binder::bind_parameter: raw_bind_parameter fails for an index that is not
\* a parameter of the statement
bind_parameter(self, thing) ==
    LET index == self.index + 1
    IN  IF index \in DOMAIN self.stmt
        THEN [self EXCEPT !.index = index, !.stmt[index] = thing]
        ELSE [self EXCEPT !.index = index, !.result = "Err"]

\* Binder::skip doing nothing
Binder_skip_nothing(self, count) == self

\* Binder::skip
Binder_skip(self, count) == [self EXCEPT !.index = self.index + count]

RECURSIVE Bind_bind(_, _, _), Bind_bind_each(_, _, _)
\* binding the things of a tuple from the last to the first
Bind_bind_each_reversed(elems, items, bnd) ==
    IF bnd.result = "Err" \/ elems = <<>> THEN bnd
    ELSE Bind_bind_each(SubSeq(elems, 1, Len(elems) - 1),
                        SubSeq(items, 1, Len(items) - 1),
                        Bind_bind(elems[Len(elems)], items[Len(items)], bnd))

\* Bind::bind of a thing of type T
Bind_bind(T, thing, bnd) ==
    IF T.kind = "Scalar" THEN bind_parameter(bnd, thing.v)
    ELSE IF T.kind = "Option"
    THEN IF thing.kind = "Some" THEN Bind_bind(T.inner, thing.value, bnd)
         ELSE Binder_skip(bnd, Bind_COLUMNS(T.inner))
    ELSE Bind_bind_each(T.elems, thing.items, bnd)
\* each!{ref thing => {binder.bind(thing)?;}}
Bind_bind_each(elems, items, bnd) ==
    IF bnd.result = "Err" \/ elems = <<>> THEN bnd
    ELSE Bind_bind_each(Tail(elems), Tail(items),
                        Bind_bind(Head(elems), Head(items), bnd))

(***************************************************************************)
(* Fetch and Fetcher (types/fetch.rs).  The columns of a row hold values   *)
(* of the type that is read from them, or NULL.                            *)
(***************************************************************************)
\* Fetcher::make
Fetcher_make(row) == [index |-> 0, all_nulls |-> TRUE, row |-> row]

NoFetcher == Fetcher_make(<<>>)

NoError == [kind |-> "none", idx |-> 0]
FetchOk(f, value) ==
    [fetcher |-> f, status |-> "Ok", value |-> value, error |-> NoError]
FetchErr(f, kind, idx) ==
    [fetcher |-> f, status |-> "Err", value |-> NoneV,
     error |-> [kind |-> kind, idx |-> idx]]

\* Fetcher::reset_all_nulls
reset_all_nulls(self) == [self EXCEPT !.all_nulls = TRUE]

\* Fetcher::fetch_column: Row::get fails for an index that is not a column
\* of the row, and for NULL read as a scalar
fetch_column(self) ==
    IF self.index + 1 \notin DOMAIN self.row
    THEN FetchErr(self, "InvalidColumnIndex", self.index)
    ELSE IF self.row[self.index + 1] = Null
    THEN FetchErr(self, "InvalidColumnType", self.index)
    ELSE FetchOk([self EXCEPT !.index = self.index + 1],
                 ScalarV(self.row[self.index + 1]))

\* Fetcher::try_fetch_column
try_fetch_column(self) ==
    IF self.index + 1 \notin DOMAIN self.row
    THEN FetchErr(self, "InvalidColumnIndex", self.index)
    ELSE IF self.row[self.index + 1] # Null
    THEN FetchOk([self EXCEPT !.all_nulls = FALSE, !.index = self.index + 1],
                 SomeV(ScalarV(self.row[self.index + 1])))
    ELSE FetchOk([self EXCEPT !.index = self.index + 1], NoneV)

\* the second pass of the tuple's try_fetch: the first thing that is None
\* decides between Ok(None) and the error
unwrap_fetched(f, fetched) ==
    LET nones == {i \in DOMAIN fetched : fetched[i].thing = NoneV}
    IN  IF nones = {}
        THEN FetchOk(f, SomeV(TupleV([i \in DOMAIN fetched |->
                                         fetched[i].thing.value])))
        ELSE LET first == CHOOSE i \in nones : \A j \in nones : i <= j
             IN  IF f.all_nulls THEN FetchOk(f, NoneV)
                 ELSE FetchErr(f, "FromSqlConversionFailure", fetched[first].idx)

RECURSIVE Fetch_try_fetch(_, _), try_fetch_each(_, _, _),
          Fetch_fetch(_, _), fetch_each(_, _, _)
\* the first pass of the tuple's try_fetch, not carrying all_nulls over
try_fetch_each_not_carried(elems, f, fetched) ==
    IF elems = <<>> THEN [FetchOk(f, NoneV) EXCEPT !.value = fetched]
    ELSE LET idx == f.index
             r == Fetch_try_fetch(Head(elems), f)
         IN  IF r.status = "Err" THEN r
             ELSE try_fetch_each(Tail(elems), r.fetcher,
                                 Append(fetched, [idx |-> idx, thing |-> r.value]))

\* Fetch::try_fetch for the type T
Fetch_try_fetch(T, f) ==
    IF T.kind = "Scalar" THEN try_fetch_column(f)
    ELSE IF T.kind = "Option"
    THEN LET r == Fetch_try_fetch(T.inner, f)
         IN  IF r.status = "Err" THEN r ELSE FetchOk(r.fetcher, SomeV(r.value))
    ELSE LET r == try_fetch_each(T.elems, reset_all_nulls(f), <<>>)
         IN  IF r.status = "Err" THEN r ELSE unwrap_fetched(r.fetcher, r.value)
\* the first pass of the tuple's try_fetch: every element's (idx, thing)
try_fetch_each(elems, f, fetched) ==
    IF elems = <<>> THEN [FetchOk(f, NoneV) EXCEPT !.value = fetched]
    ELSE LET idx == f.index
             all_nulls_before == f.all_nulls
             r == Fetch_try_fetch(Head(elems), f)
         IN  IF r.status = "Err" THEN r
             ELSE try_fetch_each(
                     Tail(elems),
                     [r.fetcher EXCEPT !.all_nulls = @ /\ all_nulls_before],
                     Append(fetched, [idx |-> idx, thing |-> r.value]))

\* Fetch::fetch for the type T
Fetch_fetch(T, f) ==
    IF T.kind = "Scalar" THEN fetch_column(f)
    ELSE IF T.kind = "Option" THEN Fetch_try_fetch(T.inner, f)
    ELSE LET r == fetch_each(T.elems, f, <<>>)
         IN  IF r.status = "Err" THEN r ELSE FetchOk(r.fetcher, TupleV(r.value))
\* each!{ fetcher.fetch()? }
fetch_each(elems, f, fetched) ==
    IF elems = <<>> THEN [FetchOk(f, NoneV) EXCEPT !.value = fetched]
    ELSE LET r == Fetch_fetch(Head(elems), f)
         IN  IF r.status = "Err" THEN r
             ELSE fetch_each(Tail(elems), r.fetcher, Append(fetched, r.value))

(***************************************************************************)
(* State machine: a table definition and the result of the one operation   *)
(* evaluated on it (every operation is a pure function of the definition)  *)
(***************************************************************************)
RECURSIVE SubValues(_, _)
\* a value and every value nested in it, each with the name chain leading to it
SubValues(chain, def) ==
    {[chain |-> chain, def |-> def]}
    \cup (IF def.kind = "Value" THEN SubValues(chain, def.def)
          ELSE IF def.kind = "Values" THEN
              UNION {SubValues(StrChain_with(chain, def.items[i].name),
                               def.items[i].def) : i \in DOMAIN def.items}
          ELSE {})

TableSubValues(t) ==
    UNION {SubValues(StrChain_start(t.values[i].name), t.values[i].def.inner)
           : i \in DOMAIN t.values}

RECURSIVE CountLists(_, _)
\* the lists of m column counts that sum to n
CountLists(m, n) ==
    IF m = 0 THEN (IF n = 0 THEN {<<>>} ELSE {})
    ELSE UNION {{<<k>> \o rest : rest \in CountLists(m - 1, n - k)} : k \in 0..n}

\* the inputs of update() for a table: the key flags of its values with any
\* per-value column counts that sum to the number of its columns
UpdateInputs(t) ==
    {[i \in 1..Len(t.values) |->
        [is_key |-> ValIsKeyAndCount(t)[i].is_key, count |-> counts[i]]]
     : counts \in CountLists(Len(t.values), Len(ALL_COLUMNS(t)))}

\* the checks of the columns and of the tables the text is assembled for
CheckEven == <<"%", "2", "=", "0">>
CheckBool == <<"BETWEEN", "0", "AND", "1">>
CheckIn == <<"c", "IN", "(", "1", ",", "2", ")">>
CheckMax == <<"c", "<=", "9">>

\* the value types the fields of these tables are drawn from: columns of
\* every affinity (i64, Option<String>, two columns with checks), a composite
\* of a wrapped and a plain column, a single-column Ref to the table "owner"
\* and a hand-built composite reference that is not deferrable
DDLValueTypes ==
    {[inner |-> Column(ColumnDef("Integer", FALSE, <<>>)), reference |-> NoReference],
     [inner |-> Column(ColumnDef("Text", TRUE, <<>>)), reference |-> NoReference],
     [inner |-> Column(ColumnDef("Real", FALSE, <<CheckEven, CheckBool>>)),
      reference |-> NoReference],
     [inner |-> Column(ColumnDef("Blob", TRUE, <<CheckBool>>)),
      reference |-> NoReference],
     [inner |-> Values(<<[name |-> "c",
                          def |-> Value(Column(ColumnDef("Integer", FALSE, <<>>)))],
                         [name |-> "d",
                          def |-> Column(ColumnDef("Text", TRUE, <<>>))]>>),
      reference |-> NoReference],
     [inner |-> Value(Column(ColumnDef("Integer", FALSE, <<>>))),
      reference |-> ForeignKey("owner", TRUE, "Restrict", "Restrict")],
     [inner |-> Values(<<[name |-> "c",
                          def |-> Column(ColumnDef("Integer", FALSE, <<>>))],
                         [name |-> "d",
                          def |-> Column(ColumnDef("Text", FALSE, <<>>))]>>),
      reference |-> ForeignKey("owner", FALSE, "Cascade", "SetNull")]}

DDLValueDefs ==
    {ValueDef(unique, type.inner, type.reference, <<>>) :
        unique \in BOOLEAN, type \in DDLValueTypes}

\* the lists of n values, named from FieldNames in declaration order
DDLValues(n) ==
    {[i \in 1..n |-> [name |-> FieldNames[i], def |-> defs[i]]] :
        defs \in [1..n -> DDLValueDefs]}

\* the table-level constraint lists
DDLConstraints(values) ==
    {<<>>,
     <<SqlCheck(CheckMax)>>,
     <<SqlCheck(CheckIn), Unique(values), SqlCheck(CheckMax)>>}

NoDef == Values(<<>>)

Result(op, out) ==
    [op |-> op, vkc |-> <<>>, chain |-> <<>>, def |-> NoDef,
     out |-> out, count |-> 0, names |-> <<>>, fk |-> NoReference]

NoResult == Result("none", StrConstrue_new)

Init ==
    /\ table \in TableDefs
    /\ res = NoResult
    /\ schema = NoSchema
    /\ db = NoDb /\ binder = NoBinder /\ fetcher = NoFetcher

GetByKey ==
    /\ res.op = "none"
    /\ res' = Result("get_by_key", GET_BY_KEY(table))
    /\ UNCHANGED <<table, schema, db, binder, fetcher>>

Delete ==
    /\ res.op = "none"
    /\ res' = Result("delete", DELETE(table))
    /\ UNCHANGED <<table, schema, db, binder, fetcher>>

Insert ==
    /\ res.op = "none"
    /\ res' = Result("insert", INSERT(table))
    /\ UNCHANGED <<table, schema, db, binder, fetcher>>

Upsert ==
    /\ res.op = "none"
    /\ res' = Result("upsert", UPSERT(table))
    /\ UNCHANGED <<table, schema, db, binder, fetcher>>

Update ==
    /\ res.op = "none"
    /\ \E vkc \in UpdateInputs(table) :
        res' = [Result("update", update(table.name, vkc, ALL_COLUMNS(table)))
                    EXCEPT !.vkc = vkc]
    /\ UNCHANGED <<table, schema, db, binder, fetcher>>

CountColumns ==
    /\ res.op = "none"
    /\ \E v \in TableSubValues(table) :
        res' = [Result("count_columns", StrConstrue_new)
                    EXCEPT !.chain = v.chain, !.def = v.def,
                           !.count = count_columns(v.def)]
    /\ UNCHANGED <<table, schema, db, binder, fetcher>>

TraverseValue ==
    /\ res.op = "none"
    /\ \E v \in TableSubValues(table) :
        LET new == traverse_value(Names_new, v.chain, v.def)
        IN  res' = [Result("traverse_value", new.bytes)
                        EXCEPT !.chain = v.chain, !.def = v.def,
                               !.count = Len(new.names),
                               !.names = slice_array(finish(new))]
    /\ UNCHANGED <<table, schema, db, binder, fetcher>>

PushColumnNames ==
    /\ res.op = "none"
    /\ \E v \in TableSubValues(table) :
        res' = [Result("push_column_names",
                       push_column_names(v.def, v.chain, StrConstrue_new))
                    EXCEPT !.chain = v.chain, !.def = v.def]
    /\ UNCHANGED <<table, schema, db, binder, fetcher>>

PushSql ==
    /\ res.op = "none"
    /\ \E v \in TableSubValues(table) :
        res' = [Result("push_sql", push_sql(v.def, v.chain, StrConstrue_new))
                    EXCEPT !.chain = v.chain, !.def = v.def]
    /\ UNCHANGED <<table, schema, db, binder, fetcher>>

Define ==
    /\ res.op = "none"
    /\ res' = Result("define", define(table))
    /\ UNCHANGED <<table, schema, db, binder, fetcher>>

\* ForeignKey::define_for::<T>() for the table as T, and its rendering
DefineFor ==
    /\ res.op = "none"
    /\ table.key_values # <<>>
    /\ LET fk == ForeignKey_define_for(table)
       IN  res' = [Result("define_for", ForeignKey_push_sql(fk, StrConstrue_new))
                       EXCEPT !.fk = fk]
    /\ UNCHANGED <<table, schema, db, binder, fetcher>>

\* <Ref<T> as Value>::DEFINITION for the table as T, and the rendering of
\* its foreign key
RefDefinition ==
    /\ res.op = "none"
    /\ table.key_values # <<>>
    /\ LET definition == Ref_DEFINITION(table)
       IN  res' = [Result("Ref", ForeignKey_push_sql(definition.reference,
                                                     StrConstrue_new))
                       EXCEPT !.fk = definition.reference,
                              !.def = definition.inner]
    /\ UNCHANGED <<table, schema, db, binder, fetcher>>

Next ==
    \/ GetByKey
    \/ Delete
    \/ Insert
    \/ Upsert
    \/ Update
    \/ CountColumns
    \/ TraverseValue
    \/ PushColumnNames
    \/ PushSql
    \/ Define

Spec == Init /\ [][Next]_vars

\* the assembly of the CREATE TABLE text over tables with columns of every
\* affinity, unique values, foreign keys and table-level constraints
InitDDL ==
    /\ \E name \in TableNames, n \in 0..MaxValues :
        \E values \in DDLValues(n), is_key \in [1..n -> BOOLEAN] :
            \E constraints \in DDLConstraints(values) :
                table = [TableDef(name, values, is_key)
                            EXCEPT !.constraints = constraints]
    /\ res = NoResult
    /\ schema = NoSchema
    /\ db = NoDb /\ binder = NoBinder /\ fetcher = NoFetcher

NextDDL ==
    \/ Define
    \/ DefineFor
    \/ RefDefinition

SpecDDL == InitDDL /\ [][NextDDL]_vars

\* the validation of a schema: tuples of distinct tables, each referring to
\* any tables, in the schema or not
InitSchema ==
    /\ table = TableDef("item", <<>>, <<>>)
    /\ res = NoResult
    /\ db = NoDb /\ binder = NoBinder /\ fetcher = NoFetcher
    /\ \E k \in 1..MaxTables :
        \E tables \in [1..k -> SchemaTableNames] :
            /\ \A i, j \in 1..k : i # j => tables[i] # tables[j]
            /\ \E references \in [Range(tables) -> RefLists] :
                schema = [tables |-> tables, references |-> references]

Database ==
    /\ res.op = "none"
    /\ res' = Result("database", database(schema))
    /\ UNCHANGED <<table, schema, db, binder, fetcher>>

NextSchema == Database

SpecSchema == InitSchema /\ [][NextSchema]_vars

\* Database::<S>::create_in_memory().  Database<S> requires S: Schema, which
\* only the expansion of #[database] implements, after its validation.
CreateInMemory_ungated ==
    /\ db.calls = <<>>
    /\ \E open_ok, pragma_ok, batch_ok \in BOOLEAN :
        db' = Database_create_in_memory(schema, open_ok, pragma_ok, batch_ok)
    /\ UNCHANGED <<table, res, schema, binder, fetcher>>

CreateInMemory ==
    /\ res.op = "database"
    /\ res.out.status = "ok"
    /\ db.calls = <<>>
    /\ \E open_ok, pragma_ok, batch_ok \in BOOLEAN :
        db' = Database_create_in_memory(schema, open_ok, pragma_ok, batch_ok)
    /\ UNCHANGED <<table, res, schema, binder, fetcher>>

\* Database::<S>::open(path)
Open ==
    /\ res.op = "database"
    /\ res.out.status = "ok"
    /\ db.calls = <<>>
    /\ \E open_ok, pragma_ok \in BOOLEAN :
        db' = Database_open(open_ok, pragma_ok)
    /\ UNCHANGED <<table, res, schema, binder, fetcher>>

\* schema::define over the CREATE TABLE texts of the first k tables (the
\* texts are kept in the names of the result)
SchemaDefine ==
    /\ res.op = "none"
    /\ \E k \in 0..Len(schema.tables) :
        LET tables == [i \in 1..k |->
                         CREATE_TABLE(SchemaTableDef(schema, schema.tables[i]))]
        IN  res' = [Result("schema_define", Schema_define(tables))
                        EXCEPT !.names = tables]
    /\ UNCHANGED <<table, schema, db, binder, fetcher>>

\* the life of a declared schema: its validation, then the opening of its
\* storage
InitOpen ==
    /\ table = TableDef("item", <<>>, <<>>)
    /\ res = NoResult
    /\ db = NoDb /\ binder = NoBinder /\ fetcher = NoFetcher
    /\ \E k \in 1..MaxTables :
        \E tables \in [1..k -> SchemaTableNames] :
            /\ \A i, j \in 1..k : i # j => tables[i] # tables[j]
            /\ \E references \in
                    [Range(tables) -> {l \in RefLists : Len(l) <= MaxOpenRefs}] :
                schema = [tables |-> tables, references |-> references]

NextOpen ==
    \/ Database
    \/ CreateInMemory
    \/ Open
    \/ SchemaDefine

SpecOpen == InitOpen /\ [][NextOpen]_vars

\* binder.bind(thing) for a thing of any type; the result keeps the thing and
\* its type (def), the index and the statement before the call (count, names)
Bind ==
    /\ res.op = "none"
    /\ \E T \in Types :
        \E thing \in ValuesOf(T) :
            /\ binder' = Bind_bind(T, thing, binder)
            /\ res' = [Result("bind", StrConstrue_new)
                           EXCEPT !.def = [T |-> T, thing |-> thing],
                                  !.count = binder.index,
                                  !.names = binder.stmt]
    /\ UNCHANGED <<table, schema, db, fetcher>>

\* a binder made for a prepared statement, after the binds that brought it
\* to its index: they bound all the parameters before it, or skipped them all
InitBind ==
    /\ table = TableDef("item", <<>>, <<>>)
    /\ res = NoResult
    /\ schema = NoSchema
    /\ db = NoDb /\ fetcher = NoFetcher
    /\ \E count \in 0..MaxTypeSize :
        \E index \in 0..count, earlier \in {Unbound, "x"} :
            binder = [Binder_make(Statement(count))
                         EXCEPT !.index = index,
                                !.stmt = [i \in 1..count |->
                                            IF i <= index THEN earlier ELSE Unbound]]

NextBind == Bind

SpecBind == InitBind /\ [][NextBind]_vars

\* fetcher.try_fetch::<T>() for any type; the result keeps the type (def),
\* the index before the call (count) and what was returned (fk)
TryFetch ==
    /\ res.op = "none"
    /\ \E T \in Types :
        LET r == Fetch_try_fetch(T, fetcher)
        IN  /\ fetcher' = r.fetcher
            /\ res' = [Result("try_fetch", StrConstrue_new)
                           EXCEPT !.def = [T |-> T],
                                  !.count = fetcher.index,
                                  !.fk = [r EXCEPT !.fetcher = fetcher]]
    /\ UNCHANGED <<table, schema, db, binder>>

\* fetcher.fetch::<T>() for any type
Fetch ==
    /\ res.op = "none"
    /\ \E T \in Types :
        LET r == Fetch_fetch(T, fetcher)
        IN  /\ fetcher' = r.fetcher
            /\ res' = [Result("fetch", StrConstrue_new)
                           EXCEPT !.def = [T |-> T],
                                  !.count = fetcher.index,
                                  !.fk = [r EXCEPT !.fetcher = fetcher]]
    /\ UNCHANGED <<table, schema, db, binder>>

\* a fetcher made for a row, after the fetches that brought it to its index
InitFetch ==
    /\ table = TableDef("item", <<>>, <<>>)
    /\ res = NoResult
    /\ schema = NoSchema
    /\ db = NoDb /\ binder = NoBinder
    /\ \E n \in 0..MaxTypeSize :
        \E row \in [1..n -> {Null, "x"}], index \in {0, 1}, all_nulls \in BOOLEAN :
            /\ index <= n
            /\ fetcher = [Fetcher_make(row) EXCEPT !.index = index,
                                                   !.all_nulls = all_nulls]

NextFetch ==
    \/ TryFetch
    \/ Fetch

SpecFetch == InitFetch /\ [][NextFetch]_vars
(***************************************************************************)
(* Reading generated text                                                  *)
(***************************************************************************)
RECURSIVE IndexFrom(_, _, _)
\* the first index >= i at which tok occurs in seq, 0 if there is none
IndexFrom(seq, tok, i) ==
    IF i > Len(seq) THEN 0
    ELSE IF seq[i] = tok THEN i
    ELSE IndexFrom(seq, tok, i + 1)

IndexOf(seq, tok) == IndexFrom(seq, tok, 1)

RECURSIVE SplitOn(_, _)
\* the pieces of seq between occurrences of tok (none for the empty text)
SplitOn(seq, tok) ==
    IF seq = <<>> THEN <<>>
    ELSE LET i == IndexOf(seq, tok)
         IN  IF i = 0 THEN <<seq>>
             ELSE IF i = Len(seq) THEN <<SubSeq(seq, 1, i - 1), <<>>>>
             ELSE <<SubSeq(seq, 1, i - 1)>> \o SplitOn(SubSeq(seq, i + 1, Len(seq)), tok)

DigitValue(tok) ==
    IF \E d \in 1..10 : Digits[d] = tok
    THEN (CHOOSE d \in 1..10 : Digits[d] = tok) - 1
    ELSE -1

RECURSIVE ParseDecimal(_)
\* the number a digit string denotes, -1 if it is not a digit string
ParseDecimal(toks) ==
    IF toks = <<>> THEN -1
    ELSE LET d == DigitValue(toks[Len(toks)])
         IN  IF d < 0 THEN -1
             ELSE IF Len(toks) = 1 THEN d
             ELSE LET hi == ParseDecimal(SubSeq(toks, 1, Len(toks) - 1))
                  IN  IF hi < 0 THEN -1 ELSE 10 * hi + d

\* a term `col = ?n`: its column name and its parameter number (-1 if malformed)
TermName(term) ==
    LET i == IndexOf(term, "=") IN IF i = 0 THEN <<>> ELSE SubSeq(term, 1, i - 1)
TermParam(term) ==
    LET i == IndexOf(term, "=")
    IN  IF i = 0 \/ i + 1 > Len(term) \/ term[i + 1] # "?" THEN -1
        ELSE ParseDecimal(SubSeq(term, i + 2, Len(term)))

\* the SET list and the WHERE list of an UPDATE statement, as lists of terms
UpdateHead(t) == <<"UPDATE", "\"", t.name, "\"", "SET">>
SetTerms(text) ==
    SplitOn(SubSeq(text, 6, IndexOf(text, "WHERE") - 1), ",")
WhereTerms(text) ==
    SplitOn(SubSeq(text, IndexOf(text, "WHERE") + 1, Len(text)), "AND")

Increasing(ns) == \A i, j \in DOMAIN ns : i < j => ns[i] < ns[j]

(***************************************************************************)
(* C1: every term of the text update() emits, for an input whose column    *)
(* counts sum to the number of columns, is `col = ?n` with col the n-th    *)
(* column of all_columns (1-based), and the terms of the SET list and of   *)
(* the WHERE list each appear in increasing n.                             *)
(***************************************************************************)
TermsNumbered(terms, all_columns) ==
    /\ \A i \in DOMAIN terms :
        LET n == TermParam(terms[i])
        IN  /\ n \in 1..Len(all_columns)
            /\ TermName(terms[i]) = all_columns[n]
            /\ Len(terms[i]) > Len(all_columns[n]) + 2
    /\ Increasing([i \in DOMAIN terms |-> TermParam(terms[i])])

C1_UpdateNumbersByPosition ==
    res.op = "update" =>
        /\ ALL_COLUMNS(table) # <<>> => res.out.status = "ok"
        /\ res.out.status = "ok" =>
            /\ SubSeq(res.out.text, 1, 5) = UpdateHead(table)
            /\ IndexOf(res.out.text, "WHERE") >= 6
            /\ TermsNumbered(SetTerms(res.out.text), ALL_COLUMNS(table))
            /\ TermsNumbered(WhereTerms(res.out.text), ALL_COLUMNS(table))

\* update() ran on counts that differ from the values' own, with a key value
\* before a non-key value and at least two terms in the SET list
C1_Witness ==
    /\ res.op = "update"
    /\ res.out.status = "ok"
    /\ res.vkc # ValIsKeyAndCount(table)
    /\ Len(res.vkc) >= 2
    /\ res.vkc[1].is_key /\ res.vkc[1].count >= 1
    /\ Len(SetTerms(res.out.text)) >= 2
    /\ Len(WhereTerms(res.out.text)) >= 1

(***************************************************************************)
(* C2: for a table with a declared key, the columns assigned in the SET    *)
(* list of its UPDATE statement are exactly OTHER_COLUMNS, the columns     *)
(* tested in its WHERE list are exactly KEY_COLUMNS, and no column is in   *)
(* both lists: every column of ALL_COLUMNS appears exactly once.           *)
(***************************************************************************)
TermNames(terms) == [i \in DOMAIN terms |-> TermName(terms[i])]
TermParams(terms) == {TermParam(terms[i]) : i \in DOMAIN terms}

C2_UpdatePartitionsColumns ==
    (/\ res.op = "update"
     /\ res.vkc = ValIsKeyAndCount(table)
     /\ table.primary_key # <<>>
     /\ res.out.status = "ok") =>
        LET set   == SetTerms(res.out.text)
            where == WhereTerms(res.out.text)
        IN  /\ TermNames(set) = OTHER_COLUMNS(table)
            /\ TermNames(where) = KEY_COLUMNS(table)
            /\ Range(TermNames(set)) \cap Range(TermNames(where)) = {}
            /\ TermParams(set) \cap TermParams(where) = {}
            /\ TermParams(set) \cup TermParams(where) = 1..Len(ALL_COLUMNS(table))
            /\ Len(set) + Len(where) = Len(ALL_COLUMNS(table))

\* the UPDATE statement of a table whose key value is declared after a
\* non-key value and has a non-key value after it
C2_Witness ==
    /\ res.op = "update"
    /\ res.vkc = ValIsKeyAndCount(table)
    /\ res.out.status = "ok"
    /\ Len(table.values) >= 3
    /\ ~res.vkc[1].is_key /\ res.vkc[2].is_key /\ ~res.vkc[3].is_key
    /\ Len(KEY_COLUMNS(table)) >= 1
    /\ Len(OTHER_COLUMNS(table)) >= 2

(***************************************************************************)
(* C3: each of the four generators that need a key (get_by_key, upsert,    *)
(* update, delete) aborts, returning no text, when the table has no key    *)
(* columns.                                                                *)
(***************************************************************************)
C3_KeyGeneratorsAbortWithoutKey ==
    (/\ res.op \in {"get_by_key", "upsert", "update", "delete"}
     /\ KEY_COLUMNS(table) = <<>>) =>
        res.out.status = "panic"

(***************************************************************************)
(* C4: for a table with at least one column, the text insert() produces    *)
(* holds exactly len(ALL_COLUMNS) `?` placeholders, separated by commas,   *)
(* with no trailing comma.                                                 *)
(***************************************************************************)
InsertHead(t) == <<"INSERT", "INTO", "\"", t.name, "\"", "VALUES", "(">>

CountOf(seq, tok) == Cardinality({i \in DOMAIN seq : seq[i] = tok})

\* the text between the "(" after VALUES and the first ")"
ValuesList(text) ==
    SubSeq(text, IndexOf(text, "VALUES") + 2, IndexOf(text, ")") - 1)

\* a comma-separated list of exactly n `?`
PlaceholderList(list, n) ==
    LET items == SplitOn(list, ",")
    IN  /\ Len(items) = n
        /\ \A i \in DOMAIN items : items[i] = <<"?">>

C4_InsertPlaceholders ==
    (res.op = "insert" /\ Len(ALL_COLUMNS(table)) >= 1) =>
        /\ res.out.status = "ok"
        /\ SubSeq(res.out.text, 1, 7) = InsertHead(table)
        /\ res.out.text[Len(res.out.text)] = ")"
        /\ IndexOf(res.out.text, ")") = Len(res.out.text)
        /\ PlaceholderList(ValuesList(res.out.text), Len(ALL_COLUMNS(table)))
        /\ CountOf(res.out.text, "?") = Len(ALL_COLUMNS(table))

\* the INSERT statement of a table with three or more columns
C4_Witness ==
    /\ res.op = "insert"
    /\ res.out.status = "ok"
    /\ Len(ALL_COLUMNS(table)) >= 3
    /\ CountOf(res.out.text, "?") >= 3

(***************************************************************************)
(* C5: for a table with a non-empty key, the WHERE clause get_by_key() and *)
(* delete() generate holds exactly len(KEY_COLUMNS) terms `key_col = ?`,   *)
(* one per key column in KEY_COLUMNS order, joined by AND.                 *)
(***************************************************************************)
\* the text between the "(" after WHERE and the closing ")"
WhereClause(text) ==
    SubSeq(text, IndexOf(text, "WHERE") + 2, Len(text) - 1)

KeyTerms(clause, key_columns) ==
    LET terms == SplitOn(clause, "AND")
    IN  /\ Len(terms) = Len(key_columns)
        /\ \A i \in DOMAIN terms : terms[i] = key_columns[i] \o <<"=", "?">>

C5_WhereByKey ==
    (res.op \in {"get_by_key", "delete"} /\ KEY_COLUMNS(table) # <<>>) =>
        /\ res.out.status = "ok"
        /\ res.out.text[IndexOf(res.out.text, "WHERE") + 1] = "("
        /\ res.out.text[Len(res.out.text)] = ")"
        /\ SubSeq(res.out.text, 1, IndexOf(res.out.text, "WHERE")) =
              (IF res.op = "get_by_key" THEN <<"SELECT", "*", "FROM">>
               ELSE <<"DELETE", "FROM">>) \o <<table.name, "WHERE">>
        /\ KeyTerms(WhereClause(res.out.text), KEY_COLUMNS(table))
        /\ CountOf(res.out.text, "?") = Len(KEY_COLUMNS(table))

\* SELECT by key of a table whose key has two or more columns
C5_Witness ==
    /\ res.op = "get_by_key"
    /\ res.out.status = "ok"
    /\ Len(KEY_COLUMNS(table)) >= 2
    /\ CountOf(res.out.text, "AND") >= 1

(***************************************************************************)
(* C6: for a table with a non-empty key, the ON CONFLICT target of the     *)
(* UPSERT statement lists exactly KEY_COLUMNS in order; its action is      *)
(* DO NOTHING iff OTHER_COLUMNS is empty, and otherwise DO UPDATE SET with *)
(* one assignment `c = excluded.c` per column c of OTHER_COLUMNS, in       *)
(* OTHER_COLUMNS order.                                                    *)
(***************************************************************************)
\* the text between "ON CONFLICT (" and the next ")"
ConflictTarget(text) ==
    LET c == IndexOf(text, "CONFLICT")
    IN  SubSeq(text, c + 2, IndexFrom(text, ")", c) - 1)

\* the text after the ")" that closes the conflict target
ConflictAction(text) ==
    SubSeq(text, IndexFrom(text, ")", IndexOf(text, "CONFLICT")) + 1, Len(text))

Assignments(list, other_columns) ==
    LET items == SplitOn(list, ",")
    IN  /\ Len(items) = Len(other_columns)
        /\ \A i \in DOMAIN items :
            items[i] = other_columns[i] \o <<"=", "excluded", ".">> \o other_columns[i]

C6_WitnessKeyOnly ==
    /\ res.op = "upsert"
    /\ res.out.status = "ok"
    /\ OTHER_COLUMNS(table) = <<>>
    /\ ConflictAction(res.out.text) = <<"DO", "NOTHING">>

(***************************************************************************)
(* C7: for a table with a non-empty key, the VALUES clause of the UPSERT   *)
(* statement is the VALUES clause of the INSERT statement of the same      *)
(* table: len(key_columns) + len(other_columns) placeholders against       *)
(* column_count = len(ALL_COLUMNS).                                        *)
(***************************************************************************)
\* the text from VALUES up to and including the first ")"
ValuesClause(text) ==
    SubSeq(text, IndexOf(text, "VALUES"), IndexOf(text, ")"))

C7_UpsertValuesAsInsert ==
    (res.op = "upsert" /\ KEY_COLUMNS(table) # <<>>) =>
        /\ res.out.status = "ok"
        /\ INSERT(table).status = "ok"
        /\ ValuesClause(res.out.text) = ValuesClause(INSERT(table).text)
        /\ SubSeq(res.out.text, 1, 7) = InsertHead(table)
        /\ PlaceholderList(ValuesList(res.out.text), Len(ALL_COLUMNS(table)))
        /\ Len(KEY_COLUMNS(table)) + Len(OTHER_COLUMNS(table)) = Len(ALL_COLUMNS(table))

\* the UPSERT statement of a table whose key value is declared after another
\* value, so that key-then-other order is not the declaration order
C7_Witness ==
    /\ res.op = "upsert"
    /\ res.out.status = "ok"
    /\ Len(table.values) >= 2
    /\ ~ValIsKeyAndCount(table)[1].is_key
    /\ Len(KEY_COLUMNS(table)) >= 1
    /\ Len(ALL_COLUMNS(table)) >= 3

(***************************************************************************)
(* C8: projecting a value whose tree contains an empty composite (a Values *)
(* list with no sub-values) is rejected with an error by every projection  *)
(* routine (column-name list, column count, DDL column lines, constraint   *)
(* column names); none silently yields zero columns.                       *)
(***************************************************************************)
RECURSIVE ContainsEmpty(_)
ContainsEmpty(def) ==
    IF def.kind = "Column" THEN FALSE
    ELSE IF def.kind = "Value" THEN ContainsEmpty(def.def)
    ELSE \/ def.items = <<>>
         \/ \E i \in DOMAIN def.items : ContainsEmpty(def.items[i].def)

ProjectionOps == {"traverse_value", "count_columns", "push_sql", "push_column_names"}

C8_EmptyCompositeRejected ==
    (res.op \in ProjectionOps /\ ContainsEmpty(res.def)) =>
        res.out.status = "panic"

(***************************************************************************)
(* C9: the flat name of a leaf column reached through the field names      *)
(* s1, ..., sk (root to leaf, k >= 1) is s1_s2_..._sk: the segments in     *)
(* root-to-leaf order joined by single underscores, with no leading or     *)
(* trailing underscore.                                                    *)
(***************************************************************************)
Reverse(seq) == [i \in 1..Len(seq) |-> seq[Len(seq) + 1 - i]]

\* s1 "_" s2 "_" ... "_" sk
Underscored(path) ==
    [i \in 1..(2 * Len(path) - 1) |->
        IF i % 2 = 1 THEN path[(i + 1) \div 2] ELSE "_"]

RECURSIVE LeafPaths(_, _), ItemPaths(_, _)
\* the root-to-leaf field paths of the leaf columns of a value, in declaration order
LeafPaths(path, def) ==
    IF def.kind = "Column" THEN <<path>>
    ELSE IF def.kind = "Value" THEN LeafPaths(path, def.def)
    ELSE ItemPaths(path, def.items)
ItemPaths(path, items) ==
    IF items = <<>> THEN <<>>
    ELSE LeafPaths(Append(path, Head(items).name), Head(items).def)
         \o ItemPaths(path, Tail(items))

PathNames(paths) == [i \in 1..Len(paths) |-> Underscored(paths[i])]

TablePaths(t) ==
    ItemPaths(<<>>, [i \in 1..Len(t.values) |->
                        [name |-> t.values[i].name, def |-> t.values[i].def.inner]])

C9_FlatNameIsJoinedPath ==
    /\ res.op = "traverse_value" =>
        /\ res.names = PathNames(LeafPaths(Reverse(res.chain), res.def))
        /\ ALL_COLUMNS(table) = PathNames(TablePaths(table))
    /\ (res.op = "push_column_names" /\ res.out.status = "ok") =>
        SplitOn(res.out.text, ",") = PathNames(LeafPaths(Reverse(res.chain), res.def))

\* a projected column three fields deep whose first and last segment differ
C9_Witness ==
    /\ res.op = "traverse_value"
    /\ Len(res.chain) = 1
    /\ \E i \in DOMAIN res.names :
        /\ Len(res.names[i]) >= 5
        /\ res.names[i][1] # res.names[i][Len(res.names[i])]
        /\ res.names[i] \in Range(ALL_COLUMNS(table))

(***************************************************************************)
(* C10: the projection of a composite value with children (n1, v1) ...     *)
(* (nk, vk), k >= 1, is the concatenation, in declaration order, of the    *)
(* projections of v1 ... vk, each under the path extended by its ni; the   *)
(* number of projected columns is the sum of the children's column counts, *)
(* and count_columns() is the length of the name list Names::from_values   *)
(* builds.                                                                 *)
(***************************************************************************)
RECURSIVE Concat(_)
Concat(seqs) == IF seqs = <<>> THEN <<>> ELSE Head(seqs) \o Concat(Tail(seqs))

RECURSIVE Sum(_)
Sum(ns) == IF ns = <<>> THEN 0 ELSE Head(ns) + Sum(Tail(ns))

\* the column names of one value under a name chain
ProjectedNames(chain, def) ==
    slice_array(finish(traverse_value(Names_new, chain, def)))

ChildNames(chain, items) ==
    [i \in 1..Len(items) |->
        ProjectedNames(StrChain_with(chain, items[i].name), items[i].def)]

C10_CompositeIsConcatenation ==
    /\ (res.op = "traverse_value" /\ res.def.kind = "Values" /\ res.def.items # <<>>) =>
        LET children == ChildNames(res.chain, res.def.items)
        IN  /\ res.names = Concat(children)
            /\ Len(res.names) = Sum([i \in 1..Len(children) |-> Len(children[i])])
            /\ res.count = Sum([i \in 1..Len(res.def.items) |->
                                    count_columns(res.def.items[i].def)])
            /\ res.count = count_columns(res.def)
            /\ res.count = Len(res.names)
    /\ res.op = "traverse_value" =>
        /\ calculate_lengths(table.values)[1] =
              Sum([i \in 1..Len(table.values) |-> COLUMN_COUNT(table.values[i].def)])
        /\ Len(ALL_COLUMNS(table)) = calculate_lengths(table.values)[1]

\* a composite with two children, itself nested inside another composite
C10_Witness ==
    /\ res.op = "traverse_value"
    /\ res.def.kind = "Values"
    /\ Len(res.def.items) = 2
    /\ Len(res.chain) = 2
    /\ Len(res.names) = 2
    /\ res.names[1] # res.names[2]

(***************************************************************************)
(* C11: projecting a Nested (single-field wrapper) value adds no path      *)
(* segment: the column names and the column count of Nested(v) under a     *)
(* path p are exactly those of v under the same path p (a table field      *)
(* whose type wraps one scalar yields the single column named after the    *)
(* field).                                                                 *)
(***************************************************************************)
C11_NestedAddsNoSegment ==
    /\ (res.op = "traverse_value" /\ res.def.kind = "Value") =>
        /\ res.names = ProjectedNames(res.chain, res.def.def)
        /\ res.names = PathNames(LeafPaths(Reverse(res.chain), res.def.def))
        /\ res.count = count_columns(res.def.def)
    /\ (res.op = "count_columns" /\ res.def.kind = "Value") =>
        res.count = count_columns(res.def.def)
    /\ (res.op = "push_column_names" /\ res.def.kind = "Value") =>
        res.out = push_column_names(res.def.def, res.chain, StrConstrue_new)
    /\ (res.op = "push_sql" /\ res.def.kind = "Value") =>
        res.out = push_sql(res.def.def, res.chain, StrConstrue_new)

\* a table field wrapping one scalar yields the single column named after it
C11_Witness ==
    /\ res.op = "traverse_value"
    /\ res.def = Value(Column(ColumnDef("Integer", FALSE, <<>>)))
    /\ Len(res.chain) = 1
    /\ res.names = <<res.chain>>
    /\ ALL_COLUMNS(table) = <<res.chain>>

(***************************************************************************)
(* Reading the CREATE TABLE text                                           *)
(***************************************************************************)
\* the number of parentheses open before position i
ParenDepth(text, i) ==
    Cardinality({j \in 1..(i - 1) : text[j] = "("})
        - Cardinality({j \in 1..(i - 1) : text[j] = ")"})

\* the positions of the commas of a text that are not inside parentheses
TopCommas(text) ==
    {i \in DOMAIN text : text[i] = "," /\ ParenDepth(text, i) = 0}

\* the k-th smallest element of a set of numbers
Kth(S, k) == CHOOSE x \in S : Cardinality({y \in S : y < x}) = k - 1

\* the pieces of a text between the commas that are not inside parentheses
Clauses(text) ==
    LET cuts == TopCommas(text)
        n == Cardinality(cuts)
    IN  [k \in 1..(n + 1) |->
            SubSeq(text,
                   IF k = 1 THEN 1 ELSE Kth(cuts, k - 1) + 1,
                   IF k = n + 1 THEN Len(text) ELSE Kth(cuts, k) - 1)]

CreateTableHead(t) == <<"CREATE", "TABLE", t.name, "(">>
CreateTableEnd == <<")", "STRICT", ";">>

\* the clauses between `CREATE TABLE name (` and `) STRICT;`
TableClauses(text) == Clauses(SubSeq(text, 5, Len(text) - 3))

ClauseWords == {"PRIMARY", "UNIQUE", "FOREIGN", "CHECK"}
IsColumnLine(clause) == clause # <<>> /\ clause[1] \notin ClauseWords
IsPrimaryKey(clause) == clause # <<>> /\ clause[1] = "PRIMARY"
IsUnique(clause) == clause # <<>> /\ clause[1] = "UNIQUE"
IsForeignKey(clause) == clause # <<>> /\ clause[1] = "FOREIGN"
IsCheck(clause) == clause # <<>> /\ clause[1] = "CHECK"

ColumnLines(text) == SelectSeq(TableClauses(text), IsColumnLine)

RECURSIVE LeafColumns(_), ItemColumns(_)
\* the column definitions of the leaf columns of a value, in declaration order
LeafColumns(def) ==
    IF def.kind = "Column" THEN <<def.def>>
    ELSE IF def.kind = "Value" THEN LeafColumns(def.def)
    ELSE ItemColumns(def.items)
ItemColumns(items) ==
    IF items = <<>> THEN <<>>
    ELSE LeafColumns(Head(items).def) \o ItemColumns(Tail(items))

TableColumns(t) ==
    ItemColumns([i \in 1..Len(t.values) |->
                    [name |-> t.values[i].name, def |-> t.values[i].def.inner]])

HasNotNull(line) ==
    \E i \in 1..(Len(line) - 1) : line[i] = "NOT" /\ line[i + 1] = "NULL"

RECURSIVE LeafNullable(_, _), ItemNullable(_, _)
\* for each leaf column of a value, the disjunction of the nullable flags on
\* the path to it: of the nodes of a value tree only a ColumnDef has one
\* (ValueDef and InnerValueDef carry none)
LeafNullable(def, above) ==
    IF def.kind = "Column" THEN <<above \/ def.def.nullable>>
    ELSE IF def.kind = "Value" THEN LeafNullable(def.def, above)
    ELSE ItemNullable(def.items, above)
ItemNullable(items, above) ==
    IF items = <<>> THEN <<>>
    ELSE LeafNullable(Head(items).def, above) \o ItemNullable(Tail(items), above)

TableNullable(t) ==
    ItemNullable([i \in 1..Len(t.values) |->
                    [name |-> t.values[i].name, def |-> t.values[i].def.inner]],
                 FALSE)

AffinityWord ==
    [a \in Affinity |->
        IF a = "Integer" THEN "INTEGER" ELSE IF a = "Real" THEN "REAL"
        ELSE IF a = "Text" THEN "TEXT" ELSE "BLOB"]

\* `name AFFINITY [NOT NULL] [CHECK ( name check )]*`
RenderedColumn(name, column) ==
    name \o <<AffinityWord[column.affinity]>>
         \o (IF column.nullable THEN <<>> ELSE <<"NOT", "NULL">>)
         \o Concat([k \in 1..Len(column.checks) |->
                        <<"CHECK", "(">> \o name \o column.checks[k] \o <<")">>])

C13_ColumnLineFormat ==
    (res.op = "define" /\ res.out.status = "ok") =>
        LET lines == ColumnLines(res.out.text)
            names == PathNames(TablePaths(table))
            columns == TableColumns(table)
        IN  /\ Len(lines) = Len(columns)
            /\ \A i \in DOMAIN lines :
                lines[i] = RenderedColumn(names[i], columns[i])

\* a column with two checks, not nullable, after a column of another table field
C13_Witness ==
    /\ res.op = "define"
    /\ res.out.status = "ok"
    /\ Len(table.values) = 2
    /\ table.values[2].def.inner = Column(ColumnDef("Real", FALSE, <<CheckEven, CheckBool>>))
    /\ LET lines == ColumnLines(res.out.text)
       IN  lines[Len(lines)] =
             <<"b", "REAL", "NOT", "NULL", "CHECK", "(", "b", "%", "2", "=", "0", ")",
               "CHECK", "(", "b", "BETWEEN", "0", "AND", "1", ")">>

(***************************************************************************)
(* C14: the CREATE TABLE text contains a `PRIMARY KEY ( ... )` clause if   *)
(* and only if the table declares at least one key value, and the clause   *)
(* lists exactly the projected column names of the declared key values     *)
(* (the same sequence as KEY_COLUMNS), in declaration order, a composite   *)
(* key value contributing all of its projected columns.                    *)
(***************************************************************************)
PrimaryKeyClauses(text) == SelectSeq(TableClauses(text), IsPrimaryKey)

\* the names listed between the parenthesis at position open and the end of a clause
ListedNames(clause, open) ==
    SplitOn(SubSeq(clause, open + 1, Len(clause) - 1), ",")

KeyPaths(t) ==
    ItemPaths(<<>>, [i \in 1..Len(t.key_values) |->
                        [name |-> t.key_values[i].name,
                         def |-> t.key_values[i].def.inner]])

C14_PrimaryKeyClause ==
    (res.op = "define" /\ res.out.status = "ok") =>
        LET pk == PrimaryKeyClauses(res.out.text)
        IN  /\ Len(pk) <= 1
            /\ Len(pk) = 1 <=> table.key_values # <<>>
            /\ Len(pk) = 1 <=> table.primary_key # <<>>
            /\ Len(pk) = 1 =>
                /\ SubSeq(pk[1], 1, 3) = <<"PRIMARY", "KEY", "(">>
                /\ pk[1][Len(pk[1])] = ")"
                /\ ListedNames(pk[1], 3) = KEY_COLUMNS(table)
                /\ ListedNames(pk[1], 3) = PathNames(KeyPaths(table))

\* a composite value as the sole key of a table of two values
C14_Witness ==
    /\ res.op = "define"
    /\ res.out.status = "ok"
    /\ Len(table.values) = 2
    /\ table.primary_key = <<"b">>
    /\ PrimaryKeyClauses(res.out.text) =
        <<<<"PRIMARY", "KEY", "(", "b", "_", "c", ",", "b", "_", "d", ")">>>>

(***************************************************************************)
(* C15: for every value marked unique: if its projection yields more than  *)
(* one column the CREATE TABLE text contains a table-level                 *)
(* `UNIQUE (c1, c2, ...)` clause over exactly that value's projected       *)
(* columns and no inline modifier; if its projection yields exactly one    *)
(* column the text renders an inline `UNIQUE` modifier on that column line *)
(* and no table-level UNIQUE clause for it.                                *)
(***************************************************************************)
UniqueClauses(text) == SelectSeq(TableClauses(text), IsUnique)

\* the flat names of the columns of the i-th value of a table
ValueNames(t, i) ==
    PathNames(LeafPaths(<<t.values[i].name>>, t.values[i].def.inner))

\* the column lines of a text that define the columns named
LinesOf(text, names) ==
    SelectSeq(ColumnLines(text),
              LAMBDA line : \E k \in DOMAIN names :
                  /\ Len(line) > Len(names[k])
                  /\ SubSeq(line, 1, Len(names[k])) = names[k]
                  /\ line[Len(names[k]) + 1] \in Range(AffinityWord))

\* how many UNIQUE clauses of a text list exactly the names
UniqueClausesOver(text, names) ==
    Len(SelectSeq(UniqueClauses(text),
                  LAMBDA clause : ListedNames(clause, 2) = names))

\* how many Constraint::Unique of the table are over exactly these columns
UniqueConstraintsOver(t, names) ==
    Len(SelectSeq(t.constraints,
                  LAMBDA c : c.kind = "Unique" /\ column_names(c.values) = names))

HasInlineUnique(line) == "UNIQUE" \in Range(line)

C15_UniqueInlineOrTableLevel ==
    (res.op = "define" /\ res.out.status = "ok") =>
        \A i \in DOMAIN table.values :
            table.values[i].def.unique =>
                LET names == ValueNames(table, i)
                    lines == LinesOf(res.out.text, names)
                    own   == UniqueClausesOver(res.out.text, names)
                                - UniqueConstraintsOver(table, names)
                IN  IF Len(names) > 1
                    THEN /\ own = 1
                         /\ \A k \in DOMAIN lines : ~HasInlineUnique(lines[k])
                    ELSE /\ own = 0
                         /\ Len(lines) = 1
                         /\ HasInlineUnique(lines[1])

(***************************************************************************)
(* C16: for every top-level value of a table that carries a foreign key,   *)
(* the CREATE TABLE text contains exactly one clause                       *)
(* `FOREIGN KEY (cols) REFERENCES target ON UPDATE a ON DELETE b` where    *)
(* cols are exactly that value's projected column names in projection      *)
(* order, target is the foreign key's table name, and a / b are the SQL    *)
(* spellings (CASCADE, RESTRICT, SET NULL) of its on_update / on_delete    *)
(* actions; values without a foreign key produce no such clause.           *)
(***************************************************************************)
ForeignKeyClauses(text) == SelectSeq(TableClauses(text), IsForeignKey)

ActionWords ==
    [a \in FkConflictAction |->
        IF a = "Cascade" THEN <<"CASCADE">>
        ELSE IF a = "Restrict" THEN <<"RESTRICT">> ELSE <<"SET", "NULL">>]

\* n1, n2, ..., nk
Listed(names) ==
    Concat([k \in 1..Len(names) |->
                IF k = 1 THEN names[k] ELSE <<",">> \o names[k]])

ForeignKeyClause(names, fk) ==
    <<"FOREIGN", "KEY", "(">> \o Listed(names)
        \o <<")", "REFERENCES", fk.table_name, "ON", "UPDATE">>
        \o ActionWords[fk.on_update] \o <<"ON", "DELETE">>
        \o ActionWords[fk.on_delete]

Deferrable == <<"DEFERRABLE", "INITIALLY", "DEFERRED">>

\* the indexes of the values of a table that carry a foreign key
Referencing(t) ==
    SelectSeq([i \in 1..Len(t.values) |-> i],
              LAMBDA i : t.values[i].def.reference # NoReference)

EndsWith(text, words) ==
    /\ Len(text) >= Len(words)
    /\ SubSeq(text, Len(text) - Len(words) + 1, Len(text)) = words

C17_ForeignKeysDeferrable ==
    res.op \in {"Ref", "define_for"} =>
        /\ res.fk.deferrable
        /\ res.out.status = "ok"
        /\ EndsWith(res.out.text, Deferrable)

(***************************************************************************)
(* C18: every table-level SqlCheck constraint appears in the CREATE TABLE  *)
(* text as `CHECK (sql)` with its SQL text unmodified, the constraints     *)
(* appear in declaration order, and they come after all column lines, the  *)
(* PRIMARY KEY clause and the per-value UNIQUE / FOREIGN KEY clauses.      *)
(***************************************************************************)
CheckClauses(text) == SelectSeq(TableClauses(text), IsCheck)

SqlChecks(t) == SelectSeq(t.constraints, LAMBDA c : c.kind = "SqlCheck")

C18_TableChecksLast ==
    (res.op = "define" /\ res.out.status = "ok") =>
        LET clauses  == TableClauses(res.out.text)
            checks   == CheckClauses(res.out.text)
            declared == SqlChecks(table)
        IN  /\ Len(checks) = Len(declared)
            /\ \A k \in DOMAIN checks :
                checks[k] = <<"CHECK", "(">> \o declared[k].sql \o <<")">>
            /\ \A j \in DOMAIN clauses :
                IsCheck(clauses[j]) =>
                    /\ \A i \in DOMAIN clauses :
                        (\/ IsColumnLine(clauses[i])
                         \/ IsPrimaryKey(clauses[i])
                         \/ IsForeignKey(clauses[i])) => i < j
                    /\ \A v \in DOMAIN table.values :
                        table.values[v].def.unique =>
                            \E i \in 1..(j - 1) :
                                /\ IsUnique(clauses[i])
                                /\ ListedNames(clauses[i], 2) = ValueNames(table, v)

\* two checks, the first with parentheses and a comma in its text, after a
\* primary key, a unique value and a referencing value
C18_Witness ==
    /\ res.op = "define"
    /\ res.out.status = "ok"
    /\ table.key_values # <<>>
    /\ \E v \in DOMAIN table.values : table.values[v].def.unique
    /\ \E v \in DOMAIN table.values : table.values[v].def.reference # NoReference
    /\ CheckClauses(res.out.text) =
        << <<"CHECK", "(", "c", "IN", "(", "1", ",", "2", ")", ")">>,
           <<"CHECK", "(", "c", "<=", "9", ")">> >>

(***************************************************************************)
(* C19: a table with zero values is rejected with a fatal error at         *)
(* construction: TableDef::define, insert and update each abort (and       *)
(* return no text) when the table has no values / no columns.              *)
(***************************************************************************)
C19_EmptyTableRejected ==
    (/\ res.op \in {"define", "insert", "update"}
     /\ (table.values = <<>> \/ ALL_COLUMNS(table) = <<>>)) =>
        /\ res.out.status = "panic"
        /\ res.out.text = <<>>

\* define on the table without values
C19_Witness ==
    /\ res.op = "define"
    /\ table.values = <<>>
    /\ res.out = Panic("empty table")

(***************************************************************************)
(* C20: schema validation over a finite set of tables succeeds if and only *)
(* if, for every table in the set, every table referenced by a foreign     *)
(* key (Ref) of any of its values is itself a member of the set; a set {B} *)
(* where B references A fails, and {A, B} succeeds.                        *)
(***************************************************************************)
Members(S) == {S.tables[i] : i \in DOMAIN S.tables}

\* the tables the Ref values of a table refer to
Referenced(S, T) == {S.references[T][i] : i \in DOMAIN S.references[T]}

C20_ValidIffReferencesAreMembers ==
    res.op = "database" =>
        /\ res.out.status = "ok" <=>
              \A T \in Members(schema) : Referenced(schema, T) \subseteq Members(schema)
        /\ (schema.tables = <<"B">> /\ schema.references["B"] = <<"A">>) =>
              res.out.status = "panic"
        /\ (/\ schema.tables = <<"A", "B">>
            /\ schema.references["B"] = <<"A">>
            /\ schema.references["A"] = <<>>) => res.out.status = "ok"

\* the schema (A, B) where B refers to A validates
C20_Witness ==
    /\ res.op = "database"
    /\ schema.tables = <<"A", "B">>
    /\ schema.references["A"] = <<>>
    /\ schema.references["B"] = <<"A">>
    /\ res.out.status = "ok"

\* the schema (B) where B refers to A and to itself does not validate
C20_WitnessRejected ==
    /\ res.op = "database"
    /\ schema.tables = <<"B">>
    /\ schema.references["B"] = <<"B", "A">>
    /\ res.out.status = "panic"

(***************************************************************************)
(* C21: every accepted schema is closed under foreign-key reachability: if *)
(* validation succeeds for the tables S, every table reached from a table  *)
(* of S through a chain of one or more foreign keys is in S.  The list     *)
(* schema.references[T] holds the target of every Ref of T's values,       *)
(* those inside composite values and those of key values included.         *)
(***************************************************************************)
\* the targets of the foreign keys of the tables in X that are declared in S
ReferencedBy(S, X) ==
    UNION {Referenced(S, T) : T \in X \cap Members(S)}

RECURSIVE ReachableWithin(_, _, _)
\* the tables reached from the tables in X by chains of at most n foreign keys
ReachableWithin(S, X, n) ==
    IF n = 0 THEN {}
    ELSE LET step == ReferencedBy(S, X)
         IN  step \cup ReachableWithin(S, step, n - 1)

\* a chain that repeats no table is no longer than the number of tables
Reachable(S) == ReachableWithin(S, Members(S), Cardinality(SchemaTableNames))

C21_ClosedUnderReachability ==
    (res.op = "database" /\ res.out.status = "ok") =>
        Reachable(schema) \subseteq Members(schema)

\* an accepted schema (A, B, C) with the chain C -> B -> A, where A is not
\* referred to by C itself
C21_Witness ==
    /\ res.op = "database"
    /\ res.out.status = "ok"
    /\ schema.tables = <<"A", "B", "C">>
    /\ schema.references["C"] = <<"B">>
    /\ schema.references["B"] = <<"A", "B">>
    /\ schema.references["A"] = <<>>
    /\ "A" \in Reachable(schema)
    /\ "A" \notin Referenced(schema, "C")

Statements(text) ==
    LET pieces == SplitOn(text, ";")
    IN  IF pieces # <<>> /\ pieces[Len(pieces)] = <<>>
        THEN SubSeq(pieces, 1, Len(pieces) - 1)
        ELSE pieces

\* the statement creates the table T
Creates(stmt, T) ==
    Len(stmt) >= 3 /\ SubSeq(stmt, 1, 3) = <<"CREATE", "TABLE", T>>

\* text is the transaction creating exactly the tables, in their order
CreatesInOrder(text, tables) ==
    LET stmts == Statements(text)
    IN  /\ Len(stmts) = Len(tables) + 2
        /\ stmts[1] = <<"BEGIN", "TRANSACTION">>
        /\ stmts[Len(stmts)] = <<"END", "TRANSACTION">>
        /\ \A i \in 1..Len(tables) : stmts[i + 1] \o <<";">> = tables[i]
        /\ text[Len(text)] = ";"

C23_SchemaCreationText ==
    /\ res.op = "schema_define" =>
          /\ res.out.status = "ok"
          /\ CreatesInOrder(res.out.text, res.names)
          /\ res.names = <<>> =>
                res.out.text = <<"BEGIN", "TRANSACTION", ";",
                                 "END", "TRANSACTION", ";">>
    /\ db.executed # <<>> =>
          /\ CreatesInOrder(db.executed,
                 [i \in DOMAIN schema.tables |->
                    CREATE_TABLE(SchemaTableDef(schema, schema.tables[i]))])
          /\ \A T \in Members(schema) :
                Cardinality({i \in 1..Len(Statements(db.executed)) :
                    Creates(Statements(db.executed)[i], T)}) = 1

\* the text of the schema (B, A, C), with B referring to A, was executed
C23_Witness ==
    /\ db.executed # <<>>
    /\ schema.tables = <<"B", "A", "C">>
    /\ schema.references["B"] = <<"A">>
    /\ Len(Statements(db.executed)) = 5

\* the text of two different tables was assembled
C23_WitnessTwo ==
    /\ res.op = "schema_define"
    /\ Len(res.names) = 2
    /\ res.names[1] # res.names[2]

\* the text of no table
C23_WitnessEmpty ==
    /\ res.op = "schema_define"
    /\ res.names = <<>>
    /\ res.out.status = "ok"

(***************************************************************************)
(* C28: binding any value of a type T through a Binder advances the        *)
(* binder's parameter index by exactly T::COLUMNS on success, whatever the *)
(* value: a scalar by 1, a tuple by the sum of its elements' COLUMNS,      *)
(* Option<T> by T::COLUMNS both for Some (the inner value is bound) and    *)
(* for None (T::COLUMNS parameters are skipped and stay unbound); so what  *)
(* is bound after an optional value lands on the same parameters whether   *)
(* the optional value is Some or None.                                     *)
(***************************************************************************)
RECURSIVE Width(_), WidthOfAll(_)
\* the number of columns of a type
Width(T) ==
    IF T.kind = "Scalar" THEN 1
    ELSE IF T.kind = "Option" THEN Width(T.inner)
    ELSE WidthOfAll(T.elems)
WidthOfAll(elems) ==
    IF elems = <<>> THEN 0 ELSE Width(Head(elems)) + WidthOfAll(Tail(elems))

RECURSIVE Slots(_, _), SlotsOfAll(_, _)
\* what a value puts on each of the columns of its type: its scalars in
\* order, and nothing (Unbound) on the columns of a None
Slots(T, thing) ==
    IF T.kind = "Scalar" THEN <<thing.v>>
    ELSE IF T.kind = "Option"
    THEN IF thing.kind = "Some" THEN Slots(T.inner, thing.value)
         ELSE [i \in 1..Width(T.inner) |-> Unbound]
    ELSE SlotsOfAll(T.elems, thing.items)
SlotsOfAll(elems, items) ==
    IF elems = <<>> THEN <<>>
    ELSE Slots(Head(elems), Head(items)) \o SlotsOfAll(Tail(elems), Tail(items))

C28_BindAdvancesByColumns ==
    (res.op = "bind" /\ binder.result = "Ok") =>
        LET T == res.def.T
            slots == Slots(T, res.def.thing)
        IN  /\ Bind_COLUMNS(T) = Width(T)
            /\ binder.index = res.count + Width(T)
            /\ Len(slots) = Width(T)
            /\ \A i \in DOMAIN binder.stmt :
                  binder.stmt[i] =
                    IF i \in (res.count + 1)..(res.count + Width(T))
                          /\ slots[i - res.count] # Unbound
                    THEN slots[i - res.count]
                    ELSE res.names[i]

\* (None, y) of type (Option<scalar>, scalar) was bound after one parameter:
\* y is on the third parameter and the second one is unbound
C28_Witness ==
    /\ res.op = "bind"
    /\ binder.result = "Ok"
    /\ res.count = 1
    /\ res.def.T = TupleT(<<OptionT(ScalarT), ScalarT>>)
    /\ res.def.thing = TupleV(<<NoneV, ScalarV("y")>>)
    /\ binder.index = 3
    /\ binder.stmt = <<"x", Unbound, "y">>

(***************************************************************************)
(* C29: try_fetch of a tuple of k >= 2 elements reads every element's      *)
(* columns in order and then returns Ok(None) if every column read was     *)
(* NULL and some element could not be fetched, Ok(Some(tuple)) if every    *)
(* element was fetched, and a FromSqlConversionFailure error carrying the  *)
(* starting column index of the first unfetchable element if some element  *)
(* could not be fetched while at least one column read was non-NULL.  In   *)
(* every non-error outcome the fetcher index has advanced by the tuple's   *)
(* full column width.                                                      *)
(***************************************************************************)
\* the columns of the i-th of the elements, whose columns follow one another
ColumnsOf(elems, cols, i) ==
    SubSeq(cols, WidthOfAll(SubSeq(elems, 1, i - 1)) + 1,
           WidthOfAll(SubSeq(elems, 1, i)))

RECURSIVE Outcome(_, _)
\* what the columns hold for the type: a value ("Some"), no value ("None":
\* a scalar that is NULL, a tuple that is all NULL and lacks an element), or
\* neither ("Err": a tuple that lacks an element and is not all NULL)
Outcome(T, cols) ==
    IF T.kind = "Scalar" THEN (IF cols[1] = Null THEN "None" ELSE "Some")
    ELSE IF T.kind = "Option"
    THEN (IF Outcome(T.inner, cols) = "Err" THEN "Err" ELSE "Some")
    ELSE LET of == [i \in DOMAIN T.elems |->
                      Outcome(T.elems[i], ColumnsOf(T.elems, cols, i))]
         IN  IF \E i \in DOMAIN of : of[i] = "Err" THEN "Err"
             ELSE IF \A i \in DOMAIN of : of[i] = "Some" THEN "Some"
             ELSE IF \A i \in DOMAIN cols : cols[i] = Null THEN "None"
             ELSE "Err"

\* the element can be fetched from its columns
Fetchable(T, cols) == Outcome(T, cols) = "Some"

\* the column each element of a tuple starts at, counted from the tuple's
\* first column
ElementStarts(elems) ==
    [i \in DOMAIN elems |-> WidthOfAll(SubSeq(elems, 1, i - 1))]

\* the elements that cannot be fetched from their columns
Unfetchable(elems, cols) ==
    {i \in DOMAIN elems : ~Fetchable(elems[i], ColumnsOf(elems, cols, i))}

\* a tuple was try_fetched from a row that has all its columns
TupleTryFetched ==
    /\ res.op = "try_fetch"
    /\ res.def.T.kind = "Tuple"
    /\ res.count + Width(res.def.T) <= Len(fetcher.row)

\* the outcome the three cases give for the tuple
TupleOutcomeAsStated ==
    LET T == res.def.T
        start == res.count
        cols == SubSeq(fetcher.row, start + 1, start + Width(T))
        bad == Unfetchable(T.elems, cols)
        r == res.fk
    IN  /\ bad = {} => r.status = "Ok" /\ r.value.kind = "Some"
        /\ (bad # {} /\ \A i \in DOMAIN cols : cols[i] = Null) =>
              r.status = "Ok" /\ r.value = NoneV
        /\ (bad # {} /\ \E i \in DOMAIN cols : cols[i] # Null) =>
              /\ r.status = "Err"
              /\ r.error.kind = "FromSqlConversionFailure"
              /\ r.error.idx = start + ElementStarts(T.elems)[
                                  CHOOSE i \in bad : \A j \in bad : i <= j]
        /\ r.status = "Ok" => fetcher.index = start + Width(T)

C29_TupleTryFetchOutcomes == TupleTryFetched => TupleOutcomeAsStated

\* what does hold: the three cases give the outcome whenever no element's
\* own try_fetch returns an error, and every non-error outcome has read the
\* full width; the error of an element is returned as it is
C29_OutcomesUnlessElementFails ==
    TupleTryFetched =>
        LET T == res.def.T
            cols == SubSeq(fetcher.row, res.count + 1, res.count + Width(T))
            failing == {i \in DOMAIN T.elems :
                          Outcome(T.elems[i], ColumnsOf(T.elems, cols, i)) = "Err"}
        IN  /\ failing = {} => TupleOutcomeAsStated
            /\ failing # {} =>
                  /\ res.fk.status = "Err"
                  /\ res.fk.error.kind = "FromSqlConversionFailure"
                  /\ LET first == CHOOSE i \in failing : \A j \in failing : i <= j
                         from == res.count + ElementStarts(T.elems)[first]
                     IN  res.fk.error.idx \in from..(from + Width(T.elems[first]) - 1)
            /\ res.fk.status = "Ok" => fetcher.index = res.count + Width(T)

\* (scalar, (scalar, scalar)) read from (x, NULL, NULL): the error carries
\* the index 1 of the second element, which is all NULL
C29_WitnessNested ==
    /\ TupleTryFetched
    /\ res.def.T = TupleT(<<ScalarT, TupleT(<<ScalarT, ScalarT>>)>>)
    /\ res.count = 0
    /\ fetcher.row = <<"x", Null, Null>>
    /\ res.fk.status = "Err"
    /\ res.fk.error.idx = 1

\* (scalar, (scalar, scalar)) read from (x, x, NULL): the second element is
\* the first that cannot be fetched and starts at column 1, and the error
\* carries the index 2
C29_WitnessElementFails ==
    /\ TupleTryFetched
    /\ res.def.T = TupleT(<<ScalarT, TupleT(<<ScalarT, ScalarT>>)>>)
    /\ res.count = 0
    /\ fetcher.row = <<"x", "x", Null>>
    /\ res.fk.status = "Err"
    /\ res.fk.error.idx = 2

(***************************************************************************)
(* The storage engine behind the connection (the rusqlite calls of         *)
(* lib.rs): it keeps the rows of the table it was told to create, reads    *)
(* the columns and the key from the CREATE TABLE text it executed, and     *)
(* reads what to do from the text of each prepared statement.              *)
(***************************************************************************)
MaxRowId == 2

\* the row ids the engine assigns, and the keys entries are made with
RowIds == {Digits[v + 1] : v \in 1..MaxRowId}

\* the CREATE TABLE statement in the text the engine executed
Sqlite_table(executed) ==
    LET stmts == Statements(executed)
        k == CHOOSE i \in DOMAIN stmts : Len(stmts[i]) >= 2 /\ stmts[i][1] = "CREATE"
    IN  stmts[k] \o <<";">>

AffinityWords == {"INTEGER", "REAL", "TEXT", "BLOB"}

\* the name of a column: what its line holds before the affinity
Sqlite_column_name(line) ==
    LET k == CHOOSE i \in DOMAIN line :
                 line[i] \in AffinityWords /\ \A j \in 1..(i - 1) : line[j] \notin AffinityWords
    IN  SubSeq(line, 1, k - 1)

\* the columns the engine keeps for the table it created: of each its name,
\* whether it is NOT NULL and whether it is an INTEGER, in the order of the
\* column lines
Sqlite_columns(executed) ==
    LET lines == ColumnLines(Sqlite_table(executed))
    IN  [k \in DOMAIN lines |->
            [name |-> Sqlite_column_name(lines[k]),
             not_null |-> HasNotNull(lines[k]),
             integer |-> lines[k][Len(Sqlite_column_name(lines[k])) + 1] = "INTEGER"]]

\* the position of the column of that name in the table (0: no such column)
Sqlite_position(columns, name) ==
    LET found == {i \in DOMAIN columns : columns[i].name = name}
    IN  IF found = {} THEN 0 ELSE CHOOSE i \in found : TRUE

\* the positions of the columns of the PRIMARY KEY clause, in its order
Sqlite_primary_key(executed) ==
    LET pk == PrimaryKeyClauses(Sqlite_table(executed))
    IN  IF pk = <<>> THEN <<>>
        ELSE LET names == ListedNames(pk[1], 3)
             IN  [i \in DOMAIN names |->
                    Sqlite_position(Sqlite_columns(executed), names[i])]

\* a primary key of one INTEGER column is the row id of the table
Sqlite_rowid_alias(self) ==
    /\ Len(self.primary_key) = 1
    /\ self.columns[self.primary_key[1]].integer

\* the row id a new row gets when it brings none: one more than the largest
Sqlite_next_rowid(self) ==
    LET used == {DigitValue(r[self.primary_key[1]]) : r \in self.rows}
    IN  IF used = {} THEN 1
        ELSE (CHOOSE v \in used : \A w \in used : w <= v) + 1

\* the stored rows that have the key of the row
Sqlite_conflicts(self, row) ==
    {r \in self.rows :
        /\ self.primary_key # <<>>
        /\ \A i \in DOMAIN self.primary_key :
              r[self.primary_key[i]] = row[self.primary_key[i]]}

\* the row an INSERT stores for the bound parameters: a parameter that was
\* never bound is NULL, and NULL for the row id is the next row id
Sqlite_new_row(self, params) ==
    [k \in DOMAIN params |->
        IF params[k] \notin {Unbound, Null} THEN params[k]
        ELSE IF Sqlite_rowid_alias(self) /\ k = self.primary_key[1]
        THEN Digits[Sqlite_next_rowid(self) + 1]
        ELSE Null]

\* the row a conflicting row becomes by DO UPDATE SET c = excluded.c, ...
Sqlite_do_update(self, action, old, excluded) ==
    LET items == SplitOn(SubSeq(action, 4, Len(action)), ",")
    IN  [k \in DOMAIN old |->
            IF \E i \in DOMAIN items :
                 SubSeq(items[i], 1, IndexOf(items[i], "=") - 1) = self.columns[k].name
            THEN LET i == CHOOSE i \in DOMAIN items :
                        SubSeq(items[i], 1, IndexOf(items[i], "=") - 1)
                            = self.columns[k].name
                 IN  excluded[Sqlite_position(self.columns,
                        SubSeq(items[i], IndexOf(items[i], ".") + 1, Len(items[i])))]
            ELSE old[k]]

SqliteOk(rows, changes, rowid) ==
    [status |-> "Ok", rows |-> rows, changes |-> changes, rowid |-> rowid]
SqliteErr(rows, rowid) ==
    [status |-> "Err", rows |-> rows, changes |-> 0, rowid |-> rowid]

\* raw_execute of INSERT INTO ... VALUES (...) [ON CONFLICT (...) DO ...]:
\* the rows afterwards, the number of changed rows and last_insert_rowid
Sqlite_execute_insert(self, text, params) ==
    IF Len(params) # Len(self.columns) THEN SqliteErr(self.rows, self.last_insert_rowid)
    ELSE IF \E k \in DOMAIN params :
                self.columns[k].not_null /\ Sqlite_new_row(self, params)[k] = Null
    THEN SqliteErr(self.rows, self.last_insert_rowid)
    ELSE IF Sqlite_conflicts(self, Sqlite_new_row(self, params)) = {}
    THEN SqliteOk(self.rows \cup {Sqlite_new_row(self, params)}, 1,
                  IF Sqlite_rowid_alias(self)
                  THEN Sqlite_new_row(self, params)[self.primary_key[1]]
                  ELSE self.last_insert_rowid)
    ELSE IF IndexOf(text, "CONFLICT") = 0
    THEN SqliteErr(self.rows, self.last_insert_rowid)
    ELSE IF ConflictAction(text) = <<"DO", "NOTHING">>
    THEN SqliteOk(self.rows, 0, self.last_insert_rowid)
    ELSE SqliteOk((self.rows \ Sqlite_conflicts(self, Sqlite_new_row(self, params)))
                    \cup {Sqlite_do_update(self, ConflictAction(text), r,
                                           Sqlite_new_row(self, params))
                            : r \in Sqlite_conflicts(self, Sqlite_new_row(self, params))},
                  Cardinality(Sqlite_conflicts(self, Sqlite_new_row(self, params))),
                  self.last_insert_rowid)

\* raw_query of SELECT * FROM ... WHERE (c = ? AND ...): the rows whose
\* columns equal the parameters (nothing equals NULL)
Sqlite_query_where(self, text, params) ==
    LET terms == SplitOn(WhereClause(text), "AND")
    IN  IF Len(params) # Len(terms) THEN {}
        ELSE {r \in self.rows : \A i \in DOMAIN terms :
                /\ params[i] \notin {Null, Unbound}
                /\ r[Sqlite_position(self.columns,
                        SubSeq(terms[i], 1, IndexOf(terms[i], "=") - 1))] = params[i]}

(***************************************************************************)
(* Entries (table.rs: Entry, HasKey) and the operations of Database on     *)
(* them (lib.rs).  An entry is the tuple of its fields in the order of the *)
(* values of its table; a field is Option<T> when its column is nullable;  *)
(* the key of a table with one key value is an Id, which may be Id::NULL.  *)
(***************************************************************************)
IsKeyField(t, i) == \E k \in DOMAIN t.primary_key : t.primary_key[k] = t.values[i].name

FieldType(value) ==
    IF value.def.inner.def.nullable THEN OptionT(ScalarT) ELSE ScalarT

\* the type that is bound and fetched for an entry of the table
EntryType(t) == TupleT([i \in DOMAIN t.values |-> FieldType(t.values[i])])

\* the positions of the key fields, in declaration order
KeyFields(t) ==
    LET IsKey(i) == IsKeyField(t, i)
    IN  SelectSeq([i \in DOMAIN t.values |-> i], IsKey)

\* HasKey::Key
KeyType(t) ==
    LET at == KeyFields(t)
    IN  IF Len(at) = 1 THEN FieldType(t.values[at[1]])
        ELSE TupleT([k \in DOMAIN at |-> FieldType(t.values[at[k]])])

\* Id::NULL
Id_NULL == ScalarV(Null)

\* Id::from_u64
Id_from_u64(id) == ScalarV(id)

\* HasKey::get_key / clone_key
get_key(t, entry) ==
    LET at == KeyFields(t)
    IN  IF Len(at) = 1 THEN entry.items[at[1]]
        ELSE TupleV([k \in DOMAIN at |-> entry.items[at[k]]])

\* *entry.get_key_mut() = key
set_key(t, entry, key) == [entry EXCEPT !.items[KeyFields(t)[1]] = key]

\* the values a field of an entry can have
FieldValues(t, i) ==
    IF IsKeyField(t, i) /\ t.values[i].name = "id"
    THEN {ScalarV(id) : id \in RowIds}
         \cup (IF Len(t.primary_key) = 1 THEN {Id_NULL} ELSE {})
    ELSE ValuesOf(FieldType(t.values[i]))

RECURSIVE FieldLists(_, _)
FieldLists(t, i) ==
    IF i > Len(t.values) THEN {<<>>}
    ELSE {<<v>> \o rest : v \in FieldValues(t, i), rest \in FieldLists(t, i + 1)}

Entries(t) == {TupleV(items) : items \in FieldLists(t, 1)}

Keys(t) == {get_key(t, entry) : entry \in Entries(t)}

\* a prepared statement: one unbound parameter for each ? of its text
Connection_prepare(text) == Statement(CountOf(text, "?"))

\* Entry::GET_ALL: every column of every row
GET_ALL(t) == <<"SELECT", "*", "FROM", t.name>>

\* what an operation of Database returns (status and changes, entry or
\* entries), the database afterwards and the statements it prepared
DbResult(self, status, changes, entries, executed) ==
    [db |-> self, status |-> status, changes |-> changes, entries |-> entries,
     executed |-> executed]

\* prepare, Binder::make(&mut stmt).bind(entry)?, stmt.raw_execute()
Database_execute(self, t, text, entry, io_ok) ==
    LET bound == Bind_bind(EntryType(t), entry, Binder_make(Connection_prepare(text)))
        done == Sqlite_execute_insert(self, text, bound.stmt)
    IN  IF bound.result = "Err" THEN DbResult(self, "Err", 0, {}, <<text>>)
        ELSE IF ~io_ok \/ done.status = "Err"
        THEN DbResult(self, "Err", 0, {}, <<text>>)
        ELSE DbResult([self EXCEPT !.rows = done.rows,
                                   !.last_insert_rowid = done.rowid],
                      "Ok", done.changes, {}, <<text>>)

\* insert preparing the UPSERT statement
Database_insert_as_upsert(self, t, entry, io_ok) ==
    Database_execute(self, t, UPSERT(t).text, entry, io_ok)

\* Database::insert
Database_insert(self, t, entry, io_ok) ==
    Database_execute(self, t, INSERT(t).text, entry, io_ok)

\* Database::upsert
Database_upsert(self, t, entry, io_ok) ==
    Database_execute(self, t, UPSERT(t).text, entry, io_ok)

\* create inserting the entry whatever its key
Database_create_unchecked(self, t, entry, io_ok) ==
    LET r == Database_insert(self, t, entry, io_ok)
    IN  IF r.status = "Err" THEN [r EXCEPT !.entries = {entry}]
        ELSE IF r.changes # 1
        THEN [r EXCEPT !.status = "Err", !.entries = {entry}]
        ELSE [r EXCEPT !.entries =
                 {set_key(t, entry, Id_from_u64(r.db.last_insert_rowid))}]

\* Database::create: the entry afterwards is the one element of entries
Database_create(self, t, entry, io_ok) ==
    IF get_key(t, entry) # Id_NULL THEN DbResult(self, "Err", 0, {entry}, <<>>)
    ELSE LET r == Database_insert(self, t, entry, io_ok)
         IN  IF r.status = "Err" THEN [r EXCEPT !.entries = {entry}]
             ELSE IF r.changes # 1
             THEN [r EXCEPT !.status = "Err", !.entries = {entry}]
             ELSE [r EXCEPT !.entries =
                      {set_key(t, entry, Id_from_u64(r.db.last_insert_rowid))}]

\* T::from_row of every row: the entries, or the error of the first failure
from_rows(self, t, rows, executed) ==
    LET fetched == {Fetch_fetch(EntryType(t), Fetcher_make(row)) : row \in rows}
    IN  IF \E r \in fetched : r.status = "Err"
        THEN DbResult(self, "Err", 0, {}, executed)
        ELSE DbResult(self, "Ok", 0, {r.value : r \in fetched}, executed)

\* Database::get_all
Database_get_all(self, t) == from_rows(self, t, self.rows, <<GET_ALL(t)>>)

\* Database::get: Some(entry) is the one element of entries, None is no element
Database_get(self, t, key) ==
    LET text == GET_BY_KEY(t).text
        bound == Bind_bind(KeyType(t), key, Binder_make(Connection_prepare(text)))
        found == Sqlite_query_where(self, text, bound.stmt)
    IN  IF bound.result = "Err" THEN DbResult(self, "Err", 0, {}, <<text>>)
        ELSE IF found = {} THEN DbResult(self, "Ok", 0, {}, <<text>>)
        ELSE from_rows(self, t, {CHOOSE row \in found : TRUE}, <<text>>)

(***************************************************************************)
(* State machine of a database: one table, created in memory, and any      *)
(* sequence of operations on it; res keeps the last operation, its entry   *)
(* or key (def) and what it returned, with the database before it (fk)     *)
(***************************************************************************)
U64Value(name) == [name |-> name, def |-> IdValue.def]

OptionValue(name) ==
    [name |-> name,
     def |-> ValueDef(FALSE, Column(ColumnDef("Integer", TRUE, <<>>)),
                      NoReference, <<>>)]

\* the tables of tests/table_constraint.rs (one key, a composite key), and
\* tables with the key last, with nothing but the key, with a nullable column
DbTables ==
    {TableDef("item", <<IdValue, U64Value("data")>>, <<TRUE, FALSE>>),
     TableDef("item", <<U64Value("id"), U64Value("parent_id"), U64Value("data")>>,
              <<TRUE, TRUE, FALSE>>),
     TableDef("item", <<U64Value("data"), IdValue>>, <<FALSE, TRUE>>),
     TableDef("item", <<IdValue>>, <<TRUE>>),
     TableDef("item", <<IdValue, OptionValue("data")>>, <<TRUE, FALSE>>)}

\* the cells the rows of the bounded database hold
InBounds(self) ==
    \A row \in self.rows : \A k \in DOMAIN row :
        row[k] \in RowIds \cup ScalarValues \cup {Null}

\* an operation on the database; the last operation of a sequence is kept
DbStep(op, def, r) ==
    /\ res.op = "none"
    /\ InBounds(r.db)
    /\ db' = r.db
    /\ \E last \in BOOLEAN :
        res' = IF last
               THEN [Result(op, StrConstrue_new) EXCEPT !.def = def,
                                                        !.fk = [r EXCEPT !.db = db]]
               ELSE res
    /\ UNCHANGED <<table, schema, binder, fetcher>>

DbInsert ==
    \E entry \in Entries(table), io_ok \in BOOLEAN :
        DbStep("db_insert", [entry |-> entry, io_ok |-> io_ok],
               Database_insert(db, table, entry, io_ok))

DbUpsert ==
    \E entry \in Entries(table), io_ok \in BOOLEAN :
        DbStep("db_upsert", [entry |-> entry, io_ok |-> io_ok],
               Database_upsert(db, table, entry, io_ok))

\* create is for the tables whose key is an Id
DbCreate ==
    /\ Len(table.primary_key) = 1
    /\ \E entry \in Entries(table), io_ok \in BOOLEAN :
        DbStep("db_create", [entry |-> entry, io_ok |-> io_ok],
               Database_create(db, table, entry, io_ok))

DbGet ==
    \E key \in Keys(table) :
        DbStep("db_get", [key |-> key], Database_get(db, table, key))

DbGetAll == DbStep("db_get_all", [all |-> TRUE], Database_get_all(db, table))

\* Database::create_in_memory of the schema of the one table succeeded
InitDb ==
    /\ table \in DbTables
    /\ res = NoResult
    /\ schema = NoSchema
    /\ binder = NoBinder /\ fetcher = NoFetcher
    /\ LET text == Schema_define(<<CREATE_TABLE(table)>>).text
       IN  db = [Database_open(TRUE, TRUE)
                    EXCEPT !.calls = <<"create_in_memory">>,
                           !.executed = text,
                           !.columns = Sqlite_columns(text),
                           !.primary_key = Sqlite_primary_key(text)]

NextDb ==
    \/ DbInsert
    \/ DbUpsert
    \/ DbCreate
    \/ DbGet
    \/ DbGetAll

SpecDb == InitDb /\ [][NextDb]_vars

(***************************************************************************)
(* C24: binding and fetching use the same column order: binding an entry   *)
(* assigns its k-th scalar (in all-columns declaration order) to statement *)
(* parameter k, and fetching reads the k-th scalar from result column      *)
(* k - 1, so a row inserted with INSERT and read back with SELECT *        *)
(* (get_all / get) decodes to an entry equal to the one inserted.          *)
(***************************************************************************)
\* the entry is what get_all and get by its key read back from the database
ReadsBack(entry) ==
    LET all == Database_get_all(db, table)
        one == Database_get(db, table, get_key(table, entry))
    IN  /\ all.status = "Ok" /\ entry \in all.entries
        /\ one.status = "Ok" /\ one.entries = {entry}

\* as stated: the entry read back is the entry inserted
C24_InsertedReadsBackEqual ==
    (res.op = "db_insert" /\ res.fk.status = "Ok") => ReadsBack(res.def.entry)

\* the entry with the row id the engine assigned in place of Id::NULL
WithAssignedKey(entry) ==
    IF get_key(table, entry) = Id_NULL
    THEN set_key(table, entry, Id_from_u64(db.last_insert_rowid))
    ELSE entry

\* C24, amended: the inserted row holds the k-th scalar of the entry in its
\* k-th column (NULL for the columns of a None, the assigned row id for a key
\* that is Id::NULL), and get_all and get read back the entry inserted, with
\* the assigned row id in place of a key that is Id::NULL
C24_InsertedReadsBackWithKey ==
    (res.op = "db_insert" /\ res.fk.status = "Ok") =>
        LET entry == res.def.entry
            slots == Slots(EntryType(table), entry)
            stored == db.rows \ res.fk.db.rows
        IN  /\ Cardinality(stored) = 1
            /\ \A row \in stored :
                /\ Len(row) = Len(slots)
                /\ \A k \in DOMAIN row :
                    row[k] = IF slots[k] = Unbound THEN Null
                             ELSE IF slots[k] = Null THEN db.last_insert_rowid
                             ELSE slots[k]
            /\ ReadsBack(WithAssignedKey(entry))

\* (y, Id::NULL) was inserted into the table whose key is its last column,
\* next to the row (x, 1): the row (y, 2) is stored
C24_Witness ==
    /\ res.op = "db_insert"
    /\ res.fk.status = "Ok"
    /\ table.primary_key = <<"id">>
    /\ res.def.entry = TupleV(<<ScalarV("y"), Id_NULL>>)
    /\ res.fk.db.rows = {<<"x", "1">>}
    /\ db.rows = {<<"x", "1">>, <<"y", "2">>}

\* an entry with a key of its own and a None was inserted and reads back
C24_WitnessNone ==
    /\ res.op = "db_insert"
    /\ res.fk.status = "Ok"
    /\ res.def.entry = TupleV(<<ScalarV("2"), NoneV>>)
    /\ <<"2", Null>> \in db.rows
    /\ ReadsBack(res.def.entry)

(***************************************************************************)
(* C25: for a table with a primary key, after any sequence of operations   *)
(* in which a row with key k is present, Database::insert of an entry with *)
(* key k returns an error and leaves the stored rows unchanged; the error  *)
(* is returned to the caller and the statement is not retried.             *)
(***************************************************************************)
\* a stored row has the key of the entry
KeyPresent(rows, entry) ==
    \E row \in rows :
        \A i \in DOMAIN table.values :
            IsKeyField(table, i) => row[i] = entry.items[i].v

C25_InsertExistingKeyFails ==
    (/\ res.op = "db_insert"
     /\ table.primary_key # <<>>
     /\ KeyPresent(res.fk.db.rows, res.def.entry)) =>
        /\ res.fk.status = "Err"
        /\ db.rows = res.fk.db.rows
        /\ db = res.fk.db
        /\ res.fk.executed = <<INSERT(table).text>>

\* (1, x, y) is inserted into the table with the composite key (id,
\* parent_id) that holds (1, x, x) and (2, x, y), and is refused
C25_Witness ==
    /\ res.op = "db_insert"
    /\ table.primary_key = <<"id", "parent_id">>
    /\ res.def.entry = TupleV(<<ScalarV("1"), ScalarV("x"), ScalarV("y")>>)
    /\ res.def.io_ok
    /\ res.fk.db.rows = {<<"1", "x", "x">>, <<"2", "x", "y">>}
    /\ res.fk.status = "Err"
    /\ db.rows = res.fk.db.rows

(***************************************************************************)
(* C26: for a table with a primary key, upsert(e) returns 1 and afterwards *)
(* get(key(e)) returns e: if a row with e's key already existed its        *)
(* non-key columns are replaced by e's and the number of rows is           *)
(* unchanged; if no such row existed, exactly one row is added; rows with  *)
(* other keys are never changed.                                           *)
(***************************************************************************)
\* the row of an entry: its scalars, NULL for a None
RowOf(entry) ==
    LET slots == Slots(EntryType(table), entry)
    IN  [k \in DOMAIN slots |-> IF slots[k] = Unbound THEN Null ELSE slots[k]]

\* the rows have the same key
SameKey(r1, r2) ==
    \A i \in DOMAIN table.values : IsKeyField(table, i) => r1[i] = r2[i]

\* the rows with the row of the entry in place of the row of its key, if any
Upserted(rows, entry) ==
    {r \in rows : ~SameKey(r, RowOf(entry))} \cup {RowOf(entry)}

C26_WitnessNull ==
    /\ res.op = "db_upsert"
    /\ res.def.io_ok
    /\ res.def.entry = TupleV(<<Id_NULL, ScalarV("y")>>)
    /\ res.fk.db.rows = {<<"1", "x">>}
    /\ db.rows = {<<"1", "x">>, <<"2", "y">>}

\* the row of a table of nothing but its key is upserted again: no change
C26_WitnessKeyOnly ==
    /\ res.op = "db_upsert"
    /\ res.def.io_ok
    /\ table.other_values = <<>>
    /\ res.def.entry = TupleV(<<ScalarV("1")>>)
    /\ res.fk.db.rows = {<<"1">>}
    /\ res.fk.status = "Ok"
    /\ res.fk.changes = 0

(***************************************************************************)
(* C27: Database::create(entry): if the entry's key is not Id::NULL it     *)
(* returns an error without preparing or executing any statement and       *)
(* leaves the entry and the stored rows unchanged; if the key is Id::NULL  *)
(* and the insert changes exactly one row, it returns Ok and sets the      *)
(* entry's key to the last inserted row id (so the key is no longer        *)
(* Id::NULL); if execution fails or the changed-row count is not 1 it      *)
(* returns an error and the entry's key stays Id::NULL.                    *)
(***************************************************************************)
C27_CreateSetsKey ==
    res.op = "db_create" =>
        LET entry == res.def.entry
            before == res.fk.db
        IN  IF get_key(table, entry) # Id_NULL
            THEN /\ res.fk.status = "Err"
                 /\ res.fk.executed = <<>>
                 /\ res.fk.entries = {entry}
                 /\ db = before
            ELSE /\ res.fk.executed = <<INSERT(table).text>>
                 /\ res.fk.status = (IF res.def.io_ok THEN "Ok" ELSE "Err")
                 /\ res.fk.status = "Ok" =>
                      /\ res.fk.changes = 1
                      /\ db.last_insert_rowid \in RowIds
                      /\ res.fk.entries =
                           {set_key(table, entry, Id_from_u64(db.last_insert_rowid))}
                      /\ \A after \in res.fk.entries :
                           /\ get_key(table, after) # Id_NULL
                           /\ ~KeyPresent(before.rows, after)
                           /\ db.rows = before.rows \cup {RowOf(after)}
                           /\ ReadsBack(after)
                 /\ res.fk.status = "Err" =>
                      /\ res.fk.entries = {entry}
                      /\ db = before

\* (Id::NULL, y) is created next to the row (1, x) and becomes (2, y)
C27_Witness ==
    /\ res.op = "db_create"
    /\ res.def.entry = TupleV(<<Id_NULL, ScalarV("y")>>)
    /\ res.fk.db.rows = {<<"1", "x">>}
    /\ res.fk.status = "Ok"
    /\ res.fk.entries = {TupleV(<<ScalarV("2"), ScalarV("y")>>)}
    /\ db.rows = {<<"1", "x">>, <<"2", "y">>}
    /\ db.last_insert_rowid = "2"

\* create of an entry that has an id is refused, whether the id is stored or not
C27_WitnessHasKey ==
    /\ res.op = "db_create"
    /\ res.def.entry = TupleV(<<ScalarV("2"), ScalarV("y")>>)
    /\ res.fk.db.rows = {<<"1", "x">>}
    /\ res.fk.status = "Err"
    /\ db.rows = {<<"1", "x">>}

\* the execution of the INSERT of create fails
C27_WitnessFails ==
    /\ res.op = "db_create"
    /\ res.def.entry = TupleV(<<Id_NULL, ScalarV("y")>>)
    /\ ~res.def.io_ok
    /\ res.fk.status = "Err"
    /\ res.fk.entries = {res.def.entry}

(***************************************************************************)
(* C30: for every table whose value trees contain no empty composite, the  *)
(* three traversals agree: the name list built by Names::from_values over  *)
(* the table's values (ALL_COLUMNS), the sequence of column lines emitted  *)
(* by InnerValueDef::push_sql in the CREATE TABLE text, and the names      *)
(* emitted by push_column_names are the same names in the same order, so   *)
(* the INSERT placeholder positions, the UPDATE ?n indices and the         *)
(* physical column order of the created table all refer to the same        *)
(* column.                                                                 *)
(***************************************************************************)
NoEmptyComposite(t) ==
    \A i \in DOMAIN t.values : ~ContainsEmpty(t.values[i].def.inner)

\* the names of the column lines of a CREATE TABLE text, in their order
LineNames(text) ==
    LET lines == ColumnLines(text)
    IN  [k \in DOMAIN lines |-> Sqlite_column_name(lines[k])]

\* the names push_column_names emits for the values of the table, in order
PushedNames(t) ==
    Concat([i \in DOMAIN t.values |->
              SplitOn(push_column_names(t.values[i].def.inner,
                                        StrChain_start(t.values[i].name),
                                        StrConstrue_new).text, ",")])

\* the terms of the UPDATE statement, each with the name of the n-th column
\* line of the CREATE TABLE text for its ?n
TermsNameLines(terms, names) ==
    \A i \in DOMAIN terms :
        /\ TermParam(terms[i]) \in DOMAIN names
        /\ TermName(terms[i]) = names[TermParam(terms[i])]

C30_TraversalsAgree ==
    (res.op = "define" /\ NoEmptyComposite(table)) =>
        /\ table.values # <<>> => res.out.status = "ok"
        /\ LineNames(res.out.text) = ALL_COLUMNS(table)
        /\ PushedNames(table) = ALL_COLUMNS(table)
        /\ ALL_COLUMNS(table) # <<>> =>
             /\ INSERT(table).status = "ok"
             /\ PlaceholderList(ValuesList(INSERT(table).text),
                                Len(LineNames(res.out.text)))
             /\ UPDATE(table).status = "ok"
             /\ TermsNameLines(SetTerms(UPDATE(table).text), LineNames(res.out.text))
             /\ TermsNameLines(WhereTerms(UPDATE(table).text), LineNames(res.out.text))

\* a table with a column and, after it, a key that is a composite of two columns
C30_Witness ==
    /\ res.op = "define"
    /\ res.out.status = "ok"
    /\ Len(table.values) = 2
    /\ table.primary_key = <<"b">>
    /\ table.values[2].def.inner.kind = "Values"
    /\ Len(table.values[2].def.inner.items) = 2
    /\ LineNames(res.out.text) = <<<<"a">>, <<"b", "_", "a">>, <<"b", "_", "b">>>>
    /\ PushedNames(table) = LineNames(res.out.text)
    /\ UPDATE(table).status = "ok"

====
